---------------------------- MODULE Spec2Model ----------------------------
(***************************************************************************)
(* Model of the district2-dashboard ingestion backend.                     *)
(*                                                                         *)
(*   - the record store: db.upsert_many over SQLite tables (SpecStore);    *)
(*   - the 311 rollups: complaints.compute_aggregations (SpecAgg);         *)
(*   - owner resolution: hpd._fetch_contacts_for_registration              *)
(*     (SpecContacts) and a run of hpd.fetch_hpd_violations with its       *)
(*     enrichment lookups (SpecHpd);                                       *)
(*   - the orchestrator: app.lifespan, scheduler.run_backfill, the jobs    *)
(*     registered by scheduler.setup_scheduler, and the adapters they run  *)
(*     (SpecSched).                                                        *)
(*                                                                         *)
(* Python None and SQL NULL are the string "NULL"; a Python dict is a      *)
(* function from its keys to strings; a table is the sequence of its rows  *)
(* in rowid (insertion) order.                                             *)
(***************************************************************************)
EXTENDS Integers, Sequences, FiniteSets, TLC

VARIABLES
    store,      \* table name -> sequence of rows (SQLite database file)
    args,       \* the function under test and its input
    ncalls,     \* number of calls of it made so far
    pre,        \* store before the latest call
    ret,        \* outcome of the latest call
    orig,       \* store before the first call
    run,        \* locals of the adapter run under test
    lifespan,   \* position of app.lifespan
    needs_backfill, \* lifespan's local: result of check_needs_backfill
    running,    \* scheduler.running: the AsyncIOScheduler accepts ticks
    task,       \* task id -> state of the job's / the backfill's coroutine
    dbLock,     \* task holding SQLite's write lock, or "free"
    txn,         \* table view of the open write transaction
    ticks,      \* number of interval ticks fired so far
    faults,     \* number of upstream faults so far
    bystanders  \* tasks that were running when another task's failure was logged

storeVars == <<args, ncalls, pre, ret, orig, run>>
schedVars == <<lifespan, needs_backfill, running, task, dbLock, txn, ticks, faults, bystanders>>
vars == <<store, args, ncalls, pre, ret, orig, run,
          lifespan, needs_backfill, running, task, dbLock, txn, ticks, faults, bystanders>>

NULL == "NULL"

(***************************************************************************)
(* Bounds of the model.                                                    *)
(***************************************************************************)
MaxBatch == 2     \* longest batch passed to upsert_many / returned upstream
MaxCalls == 2     \* calls made in a row with the same arguments
MaxTicks == 2     \* interval ticks fired in one behaviour
MaxFaults == 1    \* upstream / query faults in one behaviour
MaxBackfillTicks == 1    \* interval ticks in a behaviour that starts a backfill

(***************************************************************************)
(* db.SCHEMA: the ingestion tables, with the columns the model follows.    *)
(***************************************************************************)
Tables == {"news_articles", "calls_911"}

\* events         (id, title NOT NULL, ...)
\* complaints_311 (unique_key, created_date NOT NULL, ..., complaint_type, ...)
\* calls_911      (id, ..., call_type, ...)
\* hpd_violations (violation_id, building_id, registration_id, ..., class,
\*                 inspection_date, ..., latitude, longitude, owner_name,
\*                 owner_type, ..., managing_agent, ...)
\* hpd_complaints (problem_id, ..., major_category, ...)
\* news_articles  (id, title NOT NULL, ..., url, ..., feed_name,
\*                 is_epstein_related DEFAULT 0, is_district_news DEFAULT 0,
\*                 is_hyperlocal DEFAULT 0, ...)
\* legislation    (id, ..., title, ...)
TableCols(table) ==
    CASE table = "events" -> {"id", "title"}
      [] table = "complaints_311" -> {"unique_key", "created_date", "complaint_type"}
      [] table = "calls_911" -> {"id", "call_type"}
      [] table = "hpd_violations" ->
            {"violation_id", "building_id", "registration_id", "class",
             "inspection_date", "latitude", "longitude", "owner_name",
             "owner_type", "managing_agent"}
      [] table = "hpd_complaints" -> {"problem_id", "major_category"}
      [] table = "news_articles" ->
            {"id", "title", "url", "feed_name", "is_epstein_related",
             "is_district_news", "is_hyperlocal"}
      [] table = "legislation" -> {"id", "title"}

NotNullCols(table) ==
    CASE table = "events" -> {"title"}
      [] table = "complaints_311" -> {"created_date"}
      [] table = "news_articles" -> {"title"}
      [] OTHER -> {}

\* Value of a column the INSERT does not name.
ColumnDefault(table, c) ==
    IF /\ table = "news_articles"
       /\ c \in {"is_epstein_related", "is_district_news", "is_hyperlocal"}
    THEN "0" ELSE NULL

(***************************************************************************)
(* db.upsert_many                                                          *)
(***************************************************************************)

\* [tuple(r[c] for c in cols) for r in rows] raises KeyError when some row
\* lacks a key of the first row; this happens before any statement runs.
HasKeyError(rows, cols) ==
    \E i \in 1..Len(rows) : ~(cols \subseteq DOMAIN rows[i])

\* The row an INSERT of r over the columns cols would create.
InsertedRow(table, cols, r) ==
    [c \in TableCols(table) |->
        IF c \in cols THEN r[c] ELSE ColumnDefault(table, c)]

\* Mutant of ExecuteOne: INSERT OR REPLACE (the stored row is deleted and the
\* new one inserted).
ExecuteOne_Replace(table, tbl, cols, conflict_column, r) ==
    LET new == InsertedRow(table, cols, r)
    IN  IF \E c \in NotNullCols(table) : new[c] = NULL
        THEN [ok |-> FALSE, tbl |-> tbl]
        ELSE [ok |-> TRUE,
              tbl |-> Append(SelectSeq(tbl, LAMBDA x : x[conflict_column] # new[conflict_column]), new)]

\* Mutant of ExecuteOne: the ON CONFLICT clause never fires (plain INSERT).
ExecuteOne_NoConflict(table, tbl, cols, conflict_column, r) ==
    LET new == InsertedRow(table, cols, r)
    IN  IF \E c \in NotNullCols(table) : new[c] = NULL
        THEN [ok |-> FALSE, tbl |-> tbl]
        ELSE [ok |-> TRUE, tbl |-> Append(tbl, new)]

\* Mutant of ExecuteOne: ON CONFLICT DO NOTHING.
ExecuteOne_DoNothing(table, tbl, cols, conflict_column, r) ==
    LET new == InsertedRow(table, cols, r)
        hit == {i \in 1..Len(tbl) :
                    /\ new[conflict_column] # NULL
                    /\ tbl[i][conflict_column] = new[conflict_column]}
    IN  IF \E c \in NotNullCols(table) : new[c] = NULL
        THEN [ok |-> FALSE, tbl |-> tbl]
        ELSE IF hit # {}
        THEN [ok |-> TRUE, tbl |-> tbl]
        ELSE [ok |-> TRUE, tbl |-> Append(tbl, new)]

\* One execution of
\*   INSERT INTO table (cols) VALUES (?) ON CONFLICT(conflict_column)
\*   DO UPDATE SET c = excluded.c  for c in cols if c != conflict_column
\* on the open transaction's view tbl.  NOT NULL is checked before the
\* uniqueness conflict; a NULL key conflicts with nothing (SQLite keeps NULL
\* in a TEXT PRIMARY KEY and treats NULLs as distinct).
ExecuteOne(table, tbl, cols, conflict_column, r) ==
    LET new == InsertedRow(table, cols, r)
        hit == {i \in 1..Len(tbl) :
                    /\ new[conflict_column] # NULL
                    /\ tbl[i][conflict_column] = new[conflict_column]}
    IN  IF \E c \in NotNullCols(table) : new[c] = NULL
        THEN [ok |-> FALSE, tbl |-> tbl]
        ELSE IF hit # {}
        THEN LET i == CHOOSE j \in hit : TRUE
             IN  [ok |-> TRUE,
                  tbl |-> [tbl EXCEPT ![i] =
                             [c \in TableCols(table) |->
                                 IF c \in cols \ {conflict_column}
                                 THEN r[c] ELSE @[c]]]]
        ELSE [ok |-> TRUE, tbl |-> Append(tbl, new)]

\* db.executemany(sql, ...): the statements run in order inside one implicit
\* transaction and stop at the first one the store rejects.
RECURSIVE ExecuteMany(_, _, _, _, _, _)
ExecuteMany(table, tbl, cols, conflict_column, rows, i) ==
    IF i > Len(rows) THEN [ok |-> TRUE, tbl |-> tbl]
    ELSE LET one == ExecuteOne(table, tbl, cols, conflict_column, rows[i])
         IN  IF ~one.ok THEN [ok |-> FALSE, tbl |-> one.tbl]
             ELSE ExecuteMany(table, one.tbl, cols, conflict_column, rows, i + 1)

\* Mutant of CloseWithoutCommit: the statements that ran before the rejected
\* one stay in the table (autocommit).
CloseKeepsPartial(st, table, txtbl) ==
    [st EXCEPT ![table] = txtbl]

\* finally: await db.close() with the transaction still open: the
\* connection's uncommitted statements are rolled back.
CloseWithoutCommit(st, table, txtbl) ==
    st

\* return len(rows)
ReturnedCount(rows, conflict_column) ==
    Len(rows)

\* upsert_many(table, rows, conflict_column): the store after the call and
\* what the caller gets (a count, or the exception that propagates).
upsert_many(st, table, rows, conflict_column) ==
    IF rows = <<>> THEN [store |-> st, ret |-> [status |-> "ok", count |-> 0]]
    ELSE LET cols == DOMAIN rows[1]
         IN  IF HasKeyError(rows, cols)
             THEN [store |-> st, ret |-> [status |-> "KeyError", count |-> 0]]
             ELSE LET tx == ExecuteMany(table, st[table], cols, conflict_column, rows, 1)
                  IN  IF tx.ok
                      THEN [store |-> [st EXCEPT ![table] = tx.tbl],
                            ret |-> [status |-> "ok",
                                     count |-> ReturnedCount(rows, conflict_column)]]
                      ELSE [store |-> CloseWithoutCommit(st, table, tx.tbl),
                            ret |-> [status |-> "IntegrityError", count |-> 0]]


(***************************************************************************)
(* services/complaints.fetch_911_calls, from the upstream payload on: an   *)
(* adapter that normalises raw records and hands them to upsert_many.      *)
(***************************************************************************)

\* dict.get(k, default)
Get(r, k, default) ==
    IF k \in DOMAIN r THEN r[k] ELSE default

\* Python truth value of an identifier: None and "" are false.
Truthy(v) ==
    v # NULL /\ v # ""

\* Mutant of Rows911: the `if not cad_id: continue` test is missing.
RECURSIVE Rows911_NoSkip(_)
Rows911_NoSkip(data) ==
    IF data = <<>> THEN <<>>
    ELSE LET r == Head(data)
             cad_id == Get(r, "cad_evnt_id", "")
         IN  << [id |-> IF Truthy(cad_id) THEN "911_" \o cad_id ELSE NULL,
                 call_type |-> Get(r, "typ_desc", NULL)] >>
             \o Rows911_NoSkip(Tail(data))

\* rows = []; for r in data: cad_id = r.get("cad_evnt_id", "");
\* if not cad_id: continue; rows.append({"id": f"911_{cad_id}", ...})
RECURSIVE Rows911(_)
Rows911(data) ==
    IF data = <<>> THEN <<>>
    ELSE LET r == Head(data)
             cad_id == Get(r, "cad_evnt_id", "")
         IN  (IF ~Truthy(cad_id) THEN <<>>
              ELSE << [id |-> "911_" \o cad_id,
                       call_type |-> Get(r, "typ_desc", NULL)] >>)
             \o Rows911(Tail(data))

\* count = await upsert_many("calls_911", rows); return count
fetch_911_calls(st, data) ==
    upsert_many(st, "calls_911", Rows911(data), "id")

(***************************************************************************)
(* The orchestrator: scheduler.py and app.lifespan.                        *)
(*                                                                         *)
(* Every job and the backfill pass is a coroutine on one asyncio event     *)
(* loop; a step of the model runs one coroutine from one await to the      *)
(* next.  Time is abstracted: an interval tick may fire whenever the       *)
(* scheduler is running and the job is not already executing (APScheduler  *)
(* skips a tick of a job whose previous run is still in progress).         *)
(***************************************************************************)

\* setup_scheduler: the ids of the registered jobs.
JobIds ==
    {"fdny", "nypd", "311_events", "911_calls", "notify_nyc", "dob",
     "news", "hyperlocal", "hpd", "legislation", "session_cleanup"}

TaskIds == JobIds \cup {"backfill"}

\* backfill_events: five adapters awaited in a row inside one coroutine.
backfill_events ==
    <<"fetch_fdny_incidents", "fetch_nypd_complaints", "fetch_311_events",
      "fetch_notify_nyc_api", "fetch_dob_complaints">>

\* run_backfill: the coroutines handed to _safe_run, in order.
run_backfill ==
    << backfill_events,
       <<"fetch_311_complaints">>,
       <<"fetch_911_calls">>,
       <<"fetch_hpd_violations">>,
       <<"fetch_hpd_complaints">>,
       <<"fetch_news_feeds">>,
       <<"fetch_hyperlocal_feeds">>,
       <<"fetch_notify_nyc_alerts">>,
       <<"fetch_notify_nyc_api">>,
       <<"fetch_legislation">> >>

\* job_fetch_* / job_cleanup_sessions: the coroutines each job hands to
\* _safe_run, in order.
JobProgram(j) ==
    CASE j = "fdny" -> << <<"fetch_fdny_incidents">> >>
      [] j = "nypd" -> << <<"fetch_nypd_complaints">> >>
      [] j = "311_events" -> << <<"fetch_311_events">> >>
      [] j = "911_calls" -> << <<"fetch_911_calls">> >>
      [] j = "notify_nyc" -> << <<"fetch_notify_nyc_alerts">>, <<"fetch_notify_nyc_api">> >>
      [] j = "dob" -> << <<"fetch_dob_complaints">> >>
      [] j = "news" -> << <<"fetch_news_feeds">> >>
      [] j = "hyperlocal" -> << <<"fetch_hyperlocal_feeds">> >>
      [] j = "hpd" -> << <<"fetch_hpd_violations">>, <<"fetch_hpd_complaints">> >>
      [] j = "legislation" -> << <<"fetch_legislation">> >>
      [] j = "session_cleanup" -> << <<"cleanup_expired_sessions">> >>

Program(t) ==
    IF t = "backfill" THEN run_backfill ELSE JobProgram(t)

\* The source adapters (everything a task runs except the session cleanup).
Adapters ==
    {"fetch_fdny_incidents", "fetch_nypd_complaints", "fetch_311_events",
     "fetch_notify_nyc_api", "fetch_dob_complaints", "fetch_311_complaints",
     "fetch_911_calls", "fetch_hpd_violations", "fetch_hpd_complaints",
     "fetch_news_feeds", "fetch_hyperlocal_feeds", "fetch_notify_nyc_alerts",
     "fetch_legislation"}

\* services/events.py: the adapters whose upstream request sits inside their
\* own try/except, which logs and returns 0.
EventsCatching ==
    {"fetch_notify_nyc_alerts", "fetch_notify_nyc_api", "fetch_dob_complaints"}

\* services/news.py: likewise (for the two feed adapters the try/except is
\* per feed, and a failed feed contributes no rows).
NewsCatching ==
    {"fetch_news_feeds", "fetch_hyperlocal_feeds", "fetch_legislation"}

\* An upstream failure inside adapter a is caught by a itself.
CatchesFetch(a) ==
    a \in EventsCatching \cup NewsCatching

\* Adapters whose try/except also covers their upsert_many call.
CatchesWrite(a) ==
    a = "fetch_legislation"

\* Adapters that copy an upstream field which may be null into a NOT NULL
\* column (events.title / occurred_at, complaints_311.created_date).
Rejectable(a) ==
    a \in {"fetch_fdny_incidents", "fetch_nypd_complaints", "fetch_311_events",
           "fetch_notify_nyc_api", "fetch_dob_complaints", "fetch_311_complaints"}

\* f"fdny_{incident_id}", f"nypd_{cmplnt_num}", ...: the id of an event row.
event_id(source, natural_key) ==
    source \o "_" \o natural_key

\* hashlib.md5(text.encode()).hexdigest(), kept symbolic.
md5(text) ==
    "md5(" \o text \o ")"

\* fetch_notify_nyc_api: nid = r.get("id", md5(title)).
notify_api_nid(r) ==
    IF "id" \in DOMAIN r THEN r.id ELSE md5(r.title)

\* The database statements an adapter issues for the one record its upstream
\* holds in this model, in order; bad: the record's required field is null.
Writes(a, bad) ==
    LET v == IF bad THEN NULL ELSE "v"
        up(table, key, row) == [kind |-> "upsert", table |-> table, key |-> key, rows |-> <<row>>]
    IN  CASE a = "fetch_fdny_incidents" ->
                << up("events", "id", [id |-> event_id("fdny", "1"), title |-> v]) >>
          [] a = "fetch_nypd_complaints" ->
                << up("events", "id", [id |-> event_id("nypd", "1"), title |-> v]) >>
          [] a = "fetch_311_events" ->
                << up("events", "id", [id |-> event_id("311", "1"), title |-> v]),
                   up("complaints_311", "unique_key", [unique_key |-> "1", created_date |-> v]) >>
          [] a = "fetch_notify_nyc_api" ->
                << up("events", "id", [id |-> event_id("alert_api", notify_api_nid([id |-> "1", title |-> "v"])), title |-> v]) >>
          [] a = "fetch_dob_complaints" ->
                << up("events", "id", [id |-> event_id("dob", "1"), title |-> v]) >>
          [] a = "fetch_notify_nyc_alerts" ->
                << up("events", "id", [id |-> event_id("alert", md5("notifynyc:l:v")), title |-> "v"]) >>
          [] a = "fetch_311_complaints" ->
                << up("complaints_311", "unique_key", [unique_key |-> "1", created_date |-> v]) >>
          [] a = "fetch_911_calls" ->
                << up("calls_911", "id", [id |-> "911_1", call_type |-> "v"]) >>
          [] a = "fetch_hpd_violations" ->
                << up("hpd_violations", "violation_id", [violation_id |-> "1", class |-> "v"]) >>
          [] a = "fetch_hpd_complaints" ->
                << up("hpd_complaints", "problem_id", [problem_id |-> "1", major_category |-> "v"]) >>
          [] a = "fetch_news_feeds" ->
                << up("news_articles", "id", [id |-> "h1", title |-> "v"]) >>
          [] a = "fetch_hyperlocal_feeds" ->
                << up("news_articles", "id", [id |-> "h2", title |-> "v", is_hyperlocal |-> "1"]) >>
          [] a = "fetch_legislation" ->
                << up("legislation", "id", [id |-> "leg_1", title |-> "v"]) >>
          [] a = "cleanup_expired_sessions" ->
                << [kind |-> "delete", table |-> "sessions", key |-> "token", rows |-> <<>>] >>

SchedTables ==
    {"events", "complaints_311", "calls_911", "hpd_violations", "hpd_complaints",
     "news_articles", "legislation", "sessions"}

IdleTask ==
    [state |-> "idle", step |-> 0, inner |-> 0, pc |-> "-", w |-> 0,
     bad |-> FALSE, log |-> <<>>, invoked |-> <<>>, got |-> {}]

NoTx == [table |-> "-", tbl |-> <<>>]

\* The orchestrator before lifespan has run.
SchedIdle ==
    /\ lifespan = "start"
    /\ needs_backfill = FALSE
    /\ running = FALSE
    /\ task = [t \in TaskIds |-> IdleTask]
    /\ dbLock = "free"
    /\ txn = NoTx
    /\ ticks = 0
    /\ faults = 0
    /\ bystanders = {}

(***************************************************************************)
(* Inputs of the store specification.                                      *)
(***************************************************************************)
Batches(S) ==
    UNION {[1..n -> S] : n \in 0..MaxBatch}

ArticleIds == {"a1", "a2"}
Titles == {"t1", "t2"}

\* Row dicts a caller may pass for news_articles: the key may be absent from
\* the dict or None, the NOT NULL title may be None, and is_hyperlocal is
\* named by some callers only (fetch_hyperlocal_feeds names it,
\* fetch_news_feeds does not).
NewsDicts ==
    LET ids == ArticleIds \cup {NULL}
        ts  == Titles \cup {NULL}
    IN  {[id |-> i, title |-> t] : i \in ids, t \in ts}
        \cup {[id |-> i, title |-> t, is_hyperlocal |-> "1"] : i \in ids, t \in ts}
        \cup {[title |-> t] : t \in ts}
        \cup {[title |-> t, is_hyperlocal |-> "1"] : t \in ts}

\* Contents of news_articles at the start: rows with distinct keys.
StoredNews ==
    LET full == {[id |-> i, title |-> t, url |-> NULL, feed_name |-> NULL,
                  is_epstein_related |-> "0", is_district_news |-> "0",
                  is_hyperlocal |-> h] :
                    i \in ArticleIds, t \in Titles, h \in {"0", "1"}}
    IN  {s \in UNION {[1..n -> full] : n \in 0..Cardinality(ArticleIds)} :
            \A i, j \in 1..Len(s) : i # j => s[i].id # s[j].id}

CadIds == {"c1", "c2"}
CallTypes == {"x", "y"}

\* Raw upstream records of the 911 dataset: cad_evnt_id may be absent, null
\* or empty.
RawCalls ==
    LET cads == CadIds \cup {NULL, ""}
    IN  {[cad_evnt_id |-> c, typ_desc |-> t] : c \in cads, t \in CallTypes}
        \cup {[cad_evnt_id |-> c] : c \in cads}
        \cup {[typ_desc |-> t] : t \in CallTypes}

StoredCalls ==
    LET full == {[id |-> "911_" \o c, call_type |-> t] :
                    c \in CadIds, t \in CallTypes \cup {NULL}}
    IN  {s \in UNION {[1..n -> full] : n \in 0..Cardinality(CadIds)} :
            \A i, j \in 1..Len(s) : i # j => s[i].id # s[j].id}

NoRet == [status |-> "none", count |-> 0]

NoRun == [pc |-> "-"]

InitStore ==
    /\ \/ /\ \E s \in StoredNews :
                store = [news_articles |-> s, calls_911 |-> <<>>]
          /\ \E b \in Batches(NewsDicts) :
                args = [via |-> "upsert_many", input |-> b]
       \/ /\ \E s \in StoredCalls :
                store = [news_articles |-> <<>>, calls_911 |-> s]
          /\ \E d \in Batches(RawCalls) :
                args = [via |-> "fetch_911_calls", input |-> d]
    /\ ncalls = 0
    /\ pre = store
    /\ orig = store
    /\ ret = NoRet
    /\ run = NoRun
    /\ SchedIdle

\* A caller runs upsert_many("news_articles", rows).
CallUpsertMany ==
    /\ args.via = "upsert_many"
    /\ ncalls < MaxCalls
    /\ LET r == upsert_many(store, "news_articles", args.input, "id")
       IN  /\ store' = r.store
           /\ ret' = r.ret
    /\ pre' = store
    /\ ncalls' = ncalls + 1
    /\ UNCHANGED <<args, orig, run>>
    /\ UNCHANGED schedVars

\* fetch_911_calls runs on the payload the upstream returned.
CallFetch911 ==
    /\ args.via = "fetch_911_calls"
    /\ ncalls < MaxCalls
    /\ LET r == fetch_911_calls(store, args.input)
       IN  /\ store' = r.store
           /\ ret' = r.ret
    /\ pre' = store
    /\ ncalls' = ncalls + 1
    /\ UNCHANGED <<args, orig, run>>
    /\ UNCHANGED schedVars

NextStore ==
    \/ CallUpsertMany
    \/ CallFetch911

SpecStore == InitStore /\ [][NextStore]_vars


(***************************************************************************)
(* The orchestrator's steps (SpecSched).                                   *)
(*                                                                         *)
(* A task's record: state (idle / running / done / cancelled), the index   *)
(* of the _safe_run call it is in (step), the index of the adapter within  *)
(* the coroutine that call wraps (inner), where that adapter stands (pc:   *)
(* "fetch" awaiting its upstream, "exec" about to run its w-th statement,  *)
(* "commit" / "close" inside that statement's connection), what _safe_run  *)
(* logged so far in this run (log), the adapters called in this run        *)
(* (invoked) and those whose upstream delivered a record (got).            *)
(* The SQLite busy timeout is not modelled: a writer waits for the lock.   *)
(***************************************************************************)

\* The adapter a running task is in.
Cur(t) ==
    Program(t)[task[t].step][task[t].inner]

\* Calling adapter a: it first awaits its upstream (the session cleanup goes
\* straight to its DELETE).
EnterAdapter(r, a) ==
    [r EXCEPT !.pc = IF a = "cleanup_expired_sessions" THEN "exec" ELSE "fetch",
              !.w = 1, !.bad = FALSE, !.invoked = Append(@, a)]

\* A task starts running its first _safe_run call.
Begin(t) ==
    EnterAdapter([IdleTask EXCEPT !.state = "running", !.step = 1, !.inner = 1,
                                  !.got = {}],
                 Program(t)[1][1])

\* _safe_run: the awaited coroutine returned ("completed") or raised
\* ("failed"); either way the outcome is logged and the task goes on to its
\* next _safe_run call, or ends after the last one.
safe_run(t, r, outcome) ==
    LET P == Program(t)
        logged == [r EXCEPT !.log = Append(@, outcome), !.w = 0, !.bad = FALSE]
    IN  IF r.step < Len(P)
        THEN EnterAdapter([logged EXCEPT !.step = r.step + 1, !.inner = 1],
                          P[r.step + 1][1])
        ELSE [logged EXCEPT !.state = IF t = "backfill" THEN "done" ELSE "idle",
                            !.pc = "-"]

\* The adapter returned a count: the enclosing coroutine awaits its next
\* adapter, or returns to _safe_run.
AdapterReturns(t, r) ==
    IF r.inner < Len(Program(t)[r.step])
    THEN EnterAdapter([r EXCEPT !.inner = r.inner + 1],
                      Program(t)[r.step][r.inner + 1])
    ELSE safe_run(t, r, "completed")

\* Mutant of AdapterRaises: the exception also leaves _safe_run and ends the
\* task.
AdapterRaises_EndsTask(t, r) ==
    [r EXCEPT !.log = Append(@, "failed"), !.w = 0, !.bad = FALSE,
              !.state = IF t = "backfill" THEN "done" ELSE "idle", !.pc = "-"]

\* The adapter raised: nothing between it and _safe_run catches, so the
\* rest of the enclosing coroutine is skipped.
AdapterRaises(t, r) ==
    safe_run(t, r, "failed")

\* The tasks that are in flight next to t.
Others(t) ==
    {u \in TaskIds \ {t} : task[u].state = "running"}

\* check_needs_backfill: TRUE when events is empty or the query raises.
CheckNeedsBackfill ==
    /\ lifespan = "start"
    /\ \/ /\ needs_backfill' = (Len(store.events) = 0)
          /\ faults' = faults
       \/ /\ faults < MaxFaults
          /\ needs_backfill' = TRUE
          /\ faults' = faults + 1
    /\ lifespan' = "checked"
    /\ UNCHANGED <<store, running, task, dbLock, txn, ticks, bystanders>>
    /\ UNCHANGED storeVars

\* lifespan, from setup_scheduler() to the yield: the scheduler is started,
\* then run_backfill is handed to asyncio.create_task; no await in between.
Startup ==
    /\ lifespan = "checked"
    /\ running' = TRUE
    /\ task' = IF needs_backfill
               THEN [task EXCEPT !["backfill"] = Begin("backfill")]
               ELSE task
    /\ lifespan' = "serving"
    /\ UNCHANGED <<store, needs_backfill, dbLock, txn, ticks, faults, bystanders>>
    /\ UNCHANGED storeVars

\* Mutant of CanStart: a job whose run failed is not started again.
CanStart_UnlessFailed(j) ==
    /\ task[j].state # "running"
    /\ \A i \in DOMAIN task[j].log : task[j].log[i] # "failed"

\* Mutant of CanStart: one worker runs all jobs, one at a time.
CanStart_Serial(j) ==
    \A t \in JobIds : task[t].state # "running"

\* add_job without max_instances: the executor starts a run of job j unless
\* an instance of j itself is still running; runs of other jobs do not count.
CanStart(j) ==
    task[j].state # "running"

\* An interval trigger fires job j.
Tick(j) ==
    /\ running
    /\ CanStart(j)
    /\ ticks < (IF needs_backfill THEN MaxBackfillTicks ELSE MaxTicks)
    /\ ticks' = ticks + 1
    /\ task' = [task EXCEPT ![j] = Begin(j)]
    /\ bystanders' = bystanders \ {j}
    /\ UNCHANGED <<store, lifespan, needs_backfill, running, dbLock, txn, faults>>
    /\ UNCHANGED storeVars

\* Mutant of Released: the connection of a finished call keeps the write lock.
Released_Kept(t) ==
    t

\* upsert_many / execute, finally: db.close() gives the write lock back.
Released(t) ==
    "free"

\* auth.cleanup_expired_sessions: DELETE FROM sessions WHERE expires_at < now.
DeleteExpired(tbl) ==
    SelectSeq(tbl, LAMBDA s : ~s.expired)

\* The upstream of the adapter task t awaits answers: with its record, with
\* a record whose required field is null, or not at all (network error,
\* non-2xx status, undecodable body).
UpstreamReturns(t) ==
    /\ task[t].state = "running"
    /\ task[t].pc = "fetch"
    /\ LET a == Cur(t)
           r == task[t]
       IN  \/ /\ task' = [task EXCEPT ![t] = [r EXCEPT !.pc = "exec", !.got = @ \cup {a}]]
              /\ UNCHANGED <<faults, bystanders>>
           \/ /\ faults < MaxFaults
              /\ Rejectable(a)
              /\ task' = [task EXCEPT ![t] = [r EXCEPT !.pc = "exec", !.bad = TRUE]]
              /\ faults' = faults + 1
              /\ UNCHANGED bystanders
           \/ /\ faults < MaxFaults
              /\ task' = [task EXCEPT ![t] = IF CatchesFetch(a)
                                             THEN AdapterReturns(t, r)
                                             ELSE AdapterRaises(t, r)]
              /\ faults' = faults + 1
              /\ bystanders' = bystanders \cup Others(t)
    /\ UNCHANGED <<store, lifespan, needs_backfill, running, dbLock, txn, ticks>>
    /\ UNCHANGED storeVars

\* upsert_many up to "await db.executemany(...)" (or execute up to "await
\* db.execute(...)"): the connection takes the write lock and runs the
\* statement inside its transaction.
Execute(t) ==
    /\ task[t].state = "running"
    /\ task[t].pc = "exec"
    /\ dbLock = "free"
    /\ LET w == Writes(Cur(t), task[t].bad)[task[t].w]
           res == IF w.kind = "delete"
                  THEN [ok |-> TRUE, tbl |-> DeleteExpired(store[w.table])]
                  ELSE ExecuteMany(w.table, store[w.table], DOMAIN w.rows[1],
                                   w.key, w.rows, 1)
       IN  /\ txn' = [table |-> w.table, tbl |-> res.tbl]
           /\ task' = [task EXCEPT ![t].pc = IF res.ok THEN "commit" ELSE "close"]
    /\ dbLock' = t
    /\ UNCHANGED <<store, lifespan, needs_backfill, running, ticks, faults, bystanders>>
    /\ UNCHANGED storeVars

\* "await db.commit()", then finally: db.close(); the adapter issues its next
\* statement or returns its count.
Commit(t) ==
    /\ task[t].state = "running"
    /\ task[t].pc = "commit"
    /\ dbLock = t
    /\ store' = [store EXCEPT ![txn.table] = txn.tbl]
    /\ dbLock' = Released(t)
    /\ txn' = NoTx
    /\ LET r == task[t]
       IN  task' = [task EXCEPT ![t] =
                        IF r.w < Len(Writes(Cur(t), r.bad))
                        THEN [r EXCEPT !.pc = "exec", !.w = r.w + 1]
                        ELSE AdapterReturns(t, r)]
    /\ UNCHANGED <<lifespan, needs_backfill, running, ticks, faults, bystanders>>
    /\ UNCHANGED storeVars

\* The statement raised: finally: db.close() without a commit, and the
\* exception leaves upsert_many.
Close(t) ==
    /\ task[t].state = "running"
    /\ task[t].pc = "close"
    /\ dbLock = t
    /\ store' = CloseWithoutCommit(store, txn.table, txn.tbl)
    /\ dbLock' = Released(t)
    /\ txn' = NoTx
    /\ task' = [task EXCEPT ![t] = IF CatchesWrite(Cur(t))
                                   THEN AdapterReturns(t, task[t])
                                   ELSE AdapterRaises(t, task[t])]
    /\ bystanders' = bystanders \cup Others(t)
    /\ UNCHANGED <<lifespan, needs_backfill, running, ticks, faults>>
    /\ UNCHANGED storeVars

\* lifespan after the yield: scheduler.shutdown(wait=False).
Shutdown ==
    /\ lifespan = "serving"
    /\ running' = FALSE
    /\ lifespan' = "down"
    /\ UNCHANGED <<store, needs_backfill, task, dbLock, txn, ticks, faults, bystanders>>
    /\ UNCHANGED storeVars

\* Nothing awaits the tasks still in flight once lifespan has returned: the
\* executor cancels the job futures it still holds and the event loop cancels
\* what is left when it closes.  CancelledError is not an Exception, so
\* _safe_run does not catch it; an open connection is closed uncommitted.
Cancel(t) ==
    /\ lifespan = "down"
    /\ task[t].state = "running"
    /\ task' = [task EXCEPT ![t] = [@ EXCEPT !.state = "cancelled", !.pc = "-"]]
    /\ dbLock' = IF dbLock = t THEN "free" ELSE dbLock
    /\ txn' = IF dbLock = t THEN NoTx ELSE txn
    /\ UNCHANGED <<store, lifespan, needs_backfill, running, ticks, faults, bystanders>>
    /\ UNCHANGED storeVars

\* The store lifespan finds: fresh, or with data of an earlier run.
EmptyStore ==
    [t \in SchedTables |-> <<>>]

UsedStore ==
    [EmptyStore EXCEPT !["events"] = << [id |-> "fdny_0", title |-> "v"] >>,
                       !["sessions"] = << [token |-> "s0", expired |-> TRUE] >>]

InitSched ==
    /\ store \in {EmptyStore, UsedStore}
    /\ args = [via |-> "-", input |-> <<>>]
    /\ ncalls = 0
    /\ pre = store
    /\ orig = store
    /\ ret = NoRet
    /\ run = NoRun
    /\ SchedIdle

NextSched ==
    \/ CheckNeedsBackfill
    \/ Startup
    \/ \E j \in JobIds : Tick(j)
    \/ \E t \in TaskIds : UpstreamReturns(t)
    \/ \E t \in TaskIds : Execute(t)
    \/ \E t \in TaskIds : Commit(t)
    \/ \E t \in TaskIds : Close(t)
    \/ Shutdown
    \/ \E t \in TaskIds : Cancel(t)

SpecSched == InitSched /\ [][NextSched]_vars


(***************************************************************************)
(* Claims about the record store (checked under SpecStore).                *)
(***************************************************************************)
Direct == args.via = "upsert_many"
Called == ncalls >= 1

\* The row carries a non-NULL value under the conflict key.
Keyed(r) == "id" \in DOMAIN r /\ r.id # NULL
AllKeyed(rows) == \A i \in 1..Len(rows) : Keyed(rows[i])

RowsWithKey(tbl, k) == {i \in 1..Len(tbl) : tbl[i].id = k}
UniqueKeys(tbl) ==
    \A i, j \in 1..Len(tbl) :
        (i # j /\ tbl[i].id # NULL) => tbl[i].id # tbl[j].id

LastWithKey(rows, k) ==
    rows[CHOOSE i \in 1..Len(rows) :
            /\ Keyed(rows[i]) /\ rows[i].id = k
            /\ \A j \in (i + 1)..Len(rows) : ~(Keyed(rows[j]) /\ rows[j].id = k)]

BatchKeys(rows) == {rows[i].id : i \in {j \in 1..Len(rows) : Keyed(rows[j])}}

\* Rows of the old table whose key no row of the batch carries are where and
\* what they were.
OthersUntouched(old, new, rows) ==
    /\ Len(new) >= Len(old)
    /\ \A i \in 1..Len(old) :
          old[i].id \notin BatchKeys(rows) => new[i] = old[i]

HasNaturalKey(r) == Truthy(Get(r, "cad_evnt_id", ""))

NullKeyRows(tbl) == Cardinality(RowsWithKey(tbl, NULL))

Rejected(rows) ==
    /\ rows # <<>>
    /\ ~HasKeyError(rows, DOMAIN rows[1])
    /\ \E i \in 1..Len(rows) : rows[i].title = NULL

\* C4: a call either commits all rows of its batch or, when the store
\* rejects the batch, raises to the caller and leaves the store as it was;
\* rows committed by earlier calls stay.
C4_AtomicPerBatch ==
    (Direct /\ Called)
        => /\ Rejected(args.input) <=> ret.status = "IntegrityError"
           /\ ret.status # "ok" => store = pre
           /\ ret.status = "ok" =>
                /\ \A k \in BatchKeys(args.input) :
                      "id" \in DOMAIN args.input[1]
                          => RowsWithKey(store.news_articles, k) # {}
                /\ \A i \in 1..Len(pre.news_articles) :
                      RowsWithKey(store.news_articles, pre.news_articles[i].id) # {}

\* C4 witness: a two-row batch whose first row alone would have been
\* inserted was rejected on its second row, and the table is as before.
C4_Witness ==
    /\ Direct /\ ncalls = 1 /\ ret.status = "IntegrityError"
    /\ Len(args.input) = 2
    /\ Keyed(args.input[1]) /\ args.input[1].title # NULL
    /\ RowsWithKey(pre.news_articles, args.input[1].id) = {}
    /\ args.input[2].title = NULL
    /\ store = pre

(***************************************************************************)
(* Claims about the orchestrator (checked under SpecSched).                *)
(***************************************************************************)
Range(q) == {q[i] : i \in DOMAIN q}

Count(q, x) == Cardinality({i \in DOMAIN q : q[i] = x})

\* Task t finished a run (a job is idle again after a tick, the pass is done).
Finished(t) ==
    /\ task[t].state \in {"idle", "done"}
    /\ task[t].invoked # <<>>

\* The record adapter a writes is in the store, every statement of it.
Persisted(a) ==
    \A i \in DOMAIN Writes(a, FALSE) :
        LET w == Writes(a, FALSE)[i]
        IN  \E k \in DOMAIN store[w.table] : store[w.table][k] = InsertedRow(w.table, DOMAIN w.rows[1], w.rows[1])

\* One step of task t's own run.
TaskStep(t) ==
    UpstreamReturns(t) \/ Execute(t) \/ Commit(t) \/ Close(t)

\* C5 (as stated): in every step in which the upstream request of the adapter
\* a task is in fails (network error, non-2xx, undecodable body), the adapter
\* returns to its caller: the step does not make _safe_run log a failure.
C5_AdapterNeverRaises ==
    [][\A t \in TaskIds :
          (/\ task[t].state = "running"
           /\ task[t].pc = "fetch"
           /\ task'[t] # task[t]
           /\ faults' = faults + 1
           /\ ~task'[t].bad)
          => \/ task'[t].log = task[t].log
             \/ task'[t].log = Append(task[t].log, "completed")]_vars

\* C6: whenever a fault shows in the run of a task A, every task B in flight
\* at that moment (a bystander) can still take its next step, or waits for
\* the write lock behind a task that can; no finished or failed connection
\* keeps the lock; and once B has finished its run, the record of every
\* adapter of B whose upstream delivered is in the store.
C6_FailureIsolation ==
    /\ dbLock # "free" =>
          /\ task[dbLock].state = "running"
          /\ task[dbLock].pc \in {"commit", "close"}
    /\ \A B \in bystanders :
          /\ task[B].state = "running" =>
                \/ ENABLED TaskStep(B)
                \/ dbLock \in TaskIds \ {B} /\ ENABLED TaskStep(dbLock)
          /\ Finished(B) =>
                /\ Len(task[B].log) = Len(Program(B))
                /\ \A a \in task[B].got : Persisted(a)

\* C6 witness: job B was in flight when another job's run failed, and B has
\* since finished with its record stored.
C6_Witness ==
    \E A \in JobIds : \E B \in JobIds \ {A} :
        /\ "failed" \in Range(task[A].log)
        /\ B \in bystanders
        /\ Finished(B)
        /\ task[B].got # {}
        /\ \A a \in task[B].got : Persisted(a)

\* C7 (as stated): when the application started against an empty store, no
\* interval tick has fired unless the backfill pass has completed.
C7_BackfillBeforeFirstTick ==
    (orig.events = <<>> /\ ticks > 0) => task["backfill"].state = "done"

\* C8 (as stated): a completed backfill pass has invoked every adapter, and
\* the pass logged an outcome for each of its steps.
C8_EveryAdapterInvoked ==
    task["backfill"].state = "done" =>
        /\ Adapters \subseteq Range(task["backfill"].invoked)
        /\ Len(task["backfill"].log) = Len(run_backfill)

\* C9 (as stated, for a pass in which nothing failed): a completed backfill
\* pass has invoked each adapter exactly once, and _safe_run has wrapped, and
\* logged, each invocation on its own.
C9_EachAdapterOnceWrapped ==
    (task["backfill"].state = "done" /\ faults = 0) =>
        /\ \A a \in Adapters : Count(task["backfill"].invoked, a) = 1
        /\ Len(task["backfill"].log) = Len(task["backfill"].invoked)

\* C10 (as stated): once shutdown has begun no tick starts a job, and no run
\* that is in flight is cancelled.
C10_GracefulShutdown ==
    [][/\ ~running => ticks' = ticks
       /\ \A t \in TaskIds : task'[t].state # "cancelled"]_vars

AggDays == <<"d2", "d1">>

\* day_next
DayNext(day) ==
    IF day = "d1" THEN "d2" ELSE "d3"

\* Values of complaints_311.complaint_type: r.get("complaint_type") is None
\* when the upstream record has no such field.
ComplaintTypes == {"Heat", "Noise", NULL}

\* GROUP BY complaint_type returns its groups in key order, NULL first.
GroupOrder == <<NULL, "Heat", "Noise">>

\* SELECT complaint_type, COUNT(*) ... WHERE date(created_date) = day
\* GROUP BY complaint_type
GroupCount(tbl, day, ty) ==
    Cardinality({i \in DOMAIN tbl : tbl[i].created_date = day /\ tbl[i].complaint_type = ty})

\* agg_rows for one day
AggRows(tbl, day) ==
    LET present == SelectSeq(GroupOrder, LAMBDA ty : GroupCount(tbl, day, ty) > 0)
    IN  [k \in DOMAIN present |->
            [data_source |-> "311", period_type |-> "daily", period_start |-> day,
             period_end |-> DayNext(day), category |-> present[k],
             count |-> GroupCount(tbl, day, present[k])]]

\* UNIQUE(data_source, period_type, period_start, category): two rows
\* conflict when all four agree; a NULL category agrees with nothing.
AggConflict(old, new) ==
    /\ old.data_source = new.data_source
    /\ old.period_type = new.period_type
    /\ old.period_start = new.period_start
    /\ new.category # NULL
    /\ old.category = new.category

\* INSERT INTO aggregations ... ON CONFLICT(...) DO UPDATE SET
\* count = excluded.count, computed_at = datetime('now')
AggExecute(agg, row, now) ==
    LET hits == {i \in DOMAIN agg : AggConflict(agg[i], row)}
    IN  IF hits # {}
        THEN [i \in DOMAIN agg |->
                 IF i \in hits
                 THEN [agg[i] EXCEPT !.count = row.count, !.computed_at = now]
                 ELSE agg[i]]
        ELSE Append(agg, [id |-> Len(agg) + 1,
                          data_source |-> row.data_source,
                          period_type |-> row.period_type,
                          period_start |-> row.period_start,
                          period_end |-> row.period_end,
                          category |-> row.category,
                          count |-> row.count,
                          computed_at |-> now])

\* for row in agg_rows: await db.execute(...)
RECURSIVE AggExecuteAll(_, _, _, _)
AggExecuteAll(agg, rows, i, now) ==
    IF i > Len(rows) THEN agg
    ELSE AggExecuteAll(AggExecute(agg, rows[i], now), rows, i + 1, now)

\* The loop of compute_aggregations from its d-th day on: the aggregations
\* table after it, and the agg_rows it computed.
RECURSIVE compute_aggregations(_, _, _, _)
compute_aggregations(tbl, agg, d, now) ==
    IF d > Len(AggDays) THEN [agg |-> agg, rows |-> <<>>]
    ELSE LET rows == AggRows(tbl, AggDays[d])
             rest == compute_aggregations(tbl, AggExecuteAll(agg, rows, 1, now), d + 1, now)
         IN  [agg |-> rest.agg, rows |-> rows \o rest.rows]

UniqueKeys311 == {"k1", "k2"}

\* The rows fetch_311_complaints builds from upstream records.
Complaints311 ==
    [unique_key : UniqueKeys311, created_date : {"d1", "d2"}, complaint_type : ComplaintTypes]

InitAgg ==
    /\ store = [complaints_311 |-> <<>>, aggregations |-> <<>>]
    /\ args = [via |-> "compute_aggregations", input |-> <<>>]
    /\ ncalls = 0
    /\ pre = store
    /\ orig = store
    /\ ret = NoRet
    /\ run = NoRun
    /\ SchedIdle

\* A run of fetch_311_complaints whose upstream returns the record behind c.
Fetch311Complaints(c) ==
    /\ store' = upsert_many(store, "complaints_311", <<c>>, "unique_key").store
    /\ UNCHANGED storeVars
    /\ UNCHANGED schedVars

\* A run of compute_aggregations.
ComputeAggregations ==
    /\ ncalls < MaxCalls
    /\ LET r == compute_aggregations(store.complaints_311, store.aggregations, 1, ncalls + 1)
       IN  /\ store' = [store EXCEPT !.aggregations = r.agg]
           /\ ret' = [status |-> "ok", count |-> Len(r.rows), rows |-> r.rows]
    /\ pre' = store
    /\ ncalls' = ncalls + 1
    /\ UNCHANGED <<args, orig, run>>
    /\ UNCHANGED schedVars

NextAgg ==
    \/ \E c \in Complaints311 : Fetch311Complaints(c)
    \/ ComputeAggregations

SpecAgg == InitAgg /\ [][NextAgg]_vars

(***************************************************************************)
(* Claims about the rollups (checked under SpecAgg).                       *)
(***************************************************************************)
\* The bucket key of an aggregation row, as the uniqueness tuple reads it.
BucketKey(r) ==
    <<r.data_source, r.period_type, r.period_start, r.category>>

\* C12 (as stated): no two aggregation rows share the tuple (data_source,
\* period_type, period_start, category), an absent category included.
C12_AggregationUnique ==
    \A i, j \in DOMAIN store.aggregations :
        i # j => BucketKey(store.aggregations[i]) # BucketKey(store.aggregations[j])

\* C13 (as stated): after two computations, every stored row of a bucket the
\* later computation produced carries the count the later one produced.
C13_LatestCountStored ==
    ncalls >= 2 =>
        \A k \in DOMAIN ret.rows : \A i \in DOMAIN store.aggregations :
            BucketKey(store.aggregations[i]) = BucketKey(ret.rows[k])
                => store.aggregations[i].count = ret.rows[k].count

(***************************************************************************)
(* services/hpd._fetch_contacts_for_registration: resolving the contacts   *)
(* of one registration (SpecContacts).                                     *)
(*                                                                         *)
(* A contact is the JSON object the contacts dataset returns; Junk stands  *)
(* for an array element that is not an object (contact.get raises on it).  *)
(***************************************************************************)
MaxContacts == 2    \* longest contact list a lookup returns

Junk == [type |-> "?", firstname |-> "?", lastname |-> "?", corporationname |-> "?", junk |-> TRUE]

ContactTypes == {"CorporateOwner", "IndividualOwner", "HeadOfficer", "Officer", "Agent"}

Contacts ==
    [type : ContactTypes, firstname : {"", "Ann"}, lastname : {"", "Lee"},
     corporationname : {NULL, "", "ACME"}, junk : {FALSE}]

\* result = {"owner_name": None, ...}
NoContacts ==
    [owner_name |-> NULL, owner_type |-> NULL, head_officer |-> NULL,
     officer |-> NULL, managing_agent |-> NULL, corporation_name |-> NULL]

\* f"{first} {last}".strip() or None
full_name(contact) ==
    LET first == contact.firstname
        last == contact.lastname
    IN  IF first = "" /\ last = "" THEN NULL
        ELSE IF first = "" THEN last
        ELSE IF last = "" THEN first
        ELSE first \o " " \o last

\* contact.get("corporationname") or None
corp_name(contact) ==
    IF Truthy(contact.corporationname) THEN contact.corporationname ELSE NULL

\* x or y
Or(x, y) == IF Truthy(x) THEN x ELSE y

\* Mutant of ApplyContact: an IndividualOwner always takes the owner.
ApplyContact_LastWins(result, contact) ==
    LET ctype == contact.type
    IN  CASE ctype = "CorporateOwner" ->
                [result EXCEPT !.owner_name = Or(corp_name(contact), Or(full_name(contact), "Unknown")),
                               !.owner_type = "CorporateOwner",
                               !.corporation_name = corp_name(contact)]
          [] ctype = "IndividualOwner" ->
                [result EXCEPT !.owner_name = Or(full_name(contact), "Unknown"),
                               !.owner_type = "IndividualOwner"]
          [] ctype = "HeadOfficer" -> [result EXCEPT !.head_officer = full_name(contact)]
          [] ctype = "Officer" -> [result EXCEPT !.officer = full_name(contact)]
          [] ctype = "Agent" -> [result EXCEPT !.managing_agent = full_name(contact)]
          [] OTHER -> result

\* The body of "for contact in data": one contact applied to result.
ApplyContact(result, contact) ==
    LET ctype == contact.type
    IN  CASE ctype = "CorporateOwner" ->
                [result EXCEPT !.owner_name = Or(corp_name(contact), Or(full_name(contact), "Unknown")),
                               !.owner_type = "CorporateOwner",
                               !.corporation_name = corp_name(contact)]
          [] ctype = "IndividualOwner" /\ ~Truthy(result.owner_name) ->
                [result EXCEPT !.owner_name = Or(full_name(contact), "Unknown"),
                               !.owner_type = "IndividualOwner"]
          [] ctype = "HeadOfficer" -> [result EXCEPT !.head_officer = full_name(contact)]
          [] ctype = "Officer" -> [result EXCEPT !.officer = full_name(contact)]
          [] ctype = "Agent" -> [result EXCEPT !.managing_agent = full_name(contact)]
          [] OTHER -> result

\* "for contact in data" inside the try: an element that is not an object
\* raises, the except clause swallows it and result stays as it is by then.
RECURSIVE ParseContacts(_, _, _)
ParseContacts(data, i, result) ==
    IF i > Len(data) THEN result
    ELSE IF data[i].junk THEN result
    ELSE ParseContacts(data, i + 1, ApplyContact(result, data[i]))

\* _fetch_contacts_for_registration(registration_id) when the contacts
\* dataset answers resp: [ok |-> FALSE] (the request raises) or
\* [ok |-> TRUE, data |-> the array].
fetch_contacts_for_registration(registration_id, resp) ==
    IF ~Truthy(registration_id) THEN NoContacts
    ELSE IF ~resp.ok THEN NoContacts
    ELSE ParseContacts(resp.data, 1, NoContacts)

\* What the contacts dataset can answer to one lookup.
ContactResponses ==
    {[ok |-> FALSE, data |-> <<>>]} \cup
    {[ok |-> TRUE, data |-> d] : d \in UNION {[1..n -> Contacts \cup {Junk}] : n \in 0..MaxContacts}}

InitContacts ==
    /\ store = [hpd_violations |-> <<>>]
    /\ \E resp \in ContactResponses : \E reg \in {"r1", ""} :
          /\ reg = "" => resp = [ok |-> FALSE, data |-> <<>>]
          /\ args = [via |-> "_fetch_contacts_for_registration", input |-> resp, reg |-> reg]
    /\ ncalls = 0
    /\ pre = store
    /\ orig = store
    /\ ret = NoRet
    /\ run = NoRun
    /\ SchedIdle

\* One lookup of the registration's contacts.
CallFetchContacts ==
    /\ ncalls < 1
    /\ ret' = [status |-> "ok", count |-> 0,
               result |-> fetch_contacts_for_registration(args.reg, args.input)]
    /\ ncalls' = ncalls + 1
    /\ pre' = store
    /\ UNCHANGED <<store, args, orig, run>>
    /\ UNCHANGED schedVars

NextContacts == CallFetchContacts

SpecContacts == InitContacts /\ [][NextContacts]_vars

(***************************************************************************)
(* Claims about owner resolution (checked under SpecContacts).             *)
(***************************************************************************)
\* A lookup of a registration has returned a list of well-formed contacts.
Resolved ==
    /\ ncalls = 1
    /\ args.reg # ""
    /\ args.input.ok
    /\ \A i \in DOMAIN args.input.data : ~args.input.data[i].junk

\* The contact list in every order it can be returned in.
Orders(data) ==
    {[i \in DOMAIN data |-> data[p[i]]] : p \in Permutations(DOMAIN data)}

OfType(data, ty) ==
    {i \in DOMAIN data : data[i].type = ty}

\* The name a contact gives when it is the corporate owner: its corporation
\* name when present, else its full name, else "Unknown".
CorporateName(c) ==
    IF c.corporationname \notin {NULL, ""} THEN c.corporationname
    ELSE IF full_name(c) # NULL THEN full_name(c) ELSE "Unknown"

IndividualName(c) ==
    IF full_name(c) # NULL THEN full_name(c) ELSE "Unknown"

Max(S) == CHOOSE x \in S : \A y \in S : y <= x

Min(S) == CHOOSE x \in S : \A y \in S : x <= y

\* C17 (as stated): the resolved owner follows the precedence CorporateOwner,
\* IndividualOwner, unresolved, and owner_name and owner_type are the same
\* for every order of the contact list.
C17_OwnerOrderIndependent ==
    Resolved =>
        LET data == args.input.data
            res == ret.result
        IN  /\ OfType(data, "CorporateOwner") # {} => res.owner_type = "CorporateOwner"
            /\ (OfType(data, "CorporateOwner") = {} /\ OfType(data, "IndividualOwner") # {})
                  => res.owner_type = "IndividualOwner"
            /\ \A o \in Orders(data) :
                  LET other == ParseContacts(o, 1, NoContacts)
                  IN  /\ other.owner_type = res.owner_type
                      /\ other.owner_name = res.owner_name

\* C17 (amended): the resolved owner is the CorporateOwner contact returned
\* last if there is one (named by its corporation name when present, else
\* its full name, else "Unknown"), else the IndividualOwner contact returned
\* first (named by its full name, else "Unknown"), else unresolved;
\* owner_type is the same for every order of the list, and so is owner_name
\* whenever the contacts of the winning type all give the same name.
C17_OwnerPrecedence ==
    Resolved =>
        LET data == args.input.data
            res == ret.result
            corp == OfType(data, "CorporateOwner")
            indiv == OfType(data, "IndividualOwner")
        IN  /\ corp # {} =>
                  /\ res.owner_type = "CorporateOwner"
                  /\ res.owner_name = CorporateName(data[Max(corp)])
            /\ (corp = {} /\ indiv # {}) =>
                  /\ res.owner_type = "IndividualOwner"
                  /\ res.owner_name = IndividualName(data[Min(indiv)])
            /\ (corp = {} /\ indiv = {}) =>
                  /\ res.owner_type = NULL
                  /\ res.owner_name = NULL
            /\ \A o \in Orders(data) :
                  LET other == ParseContacts(o, 1, NoContacts)
                  IN  /\ other.owner_type = res.owner_type
                      /\ (/\ \A i, j \in corp : CorporateName(data[i]) = CorporateName(data[j])
                          /\ corp = {} => \A i, j \in indiv :
                                             IndividualName(data[i]) = IndividualName(data[j]))
                            => other.owner_name = res.owner_name

\* C17 witness: a list with a corporate owner followed by an individual
\* owner has been resolved to the corporate owner.
C17_Witness ==
    /\ Resolved
    /\ Len(args.input.data) = 2
    /\ args.input.data[1].type = "CorporateOwner"
    /\ args.input.data[2].type = "IndividualOwner"
    /\ args.input.data[2].firstname = "Ann"
    /\ ret.result.owner_type = "CorporateOwner"

(***************************************************************************)
(* services/hpd.fetch_hpd_violations: one run of the adapter, from the     *)
(* upstream's answer through the enrichment lookups to the upsert, and the *)
(* read of app.api_hpd_violations_all that follows (SpecHpd).              *)
(*                                                                         *)
(* Inspection dates are "t0" < "t1" < "t2"; the fetch window starts after  *)
(* "t0".  run.calls logs the awaited calls in order: <<kind, key, ok>>,    *)
(* ok telling whether the lookup went through without an exception.        *)
(***************************************************************************)
MaxRaw == 3       \* longest payload the violations dataset returns
LookupCap == 2    \* stands for the cap of 200 in list(reg_ids)[:200]
MaxPage == 1      \* a limit a reader passes that is smaller than the default

DateOrder == <<"t0", "t1", "t2">>

\* Position of an ISO date string in the string order ORDER BY uses.
DateRank(d) ==
    CHOOSE i \in DOMAIN DateOrder : DateOrder[i] = d

\* The inspection dates the upstream reports for a violation id.
ViolationDates(v) ==
    IF v = "v1" THEN {"t1", "t2"} ELSE IF v = "v2" THEN {"t2"} ELSE {"t1"}

\* The records the violations dataset can return for the window: a building
\* and its registration come together or not at all.
RawViolations ==
    UNION {{[violationid |-> v, registrationid |-> fk[1], buildingid |-> fk[2], inspectiondate |-> d] :
                fk \in {<<"r1", "b1">>, <<"r2", "b2">>, <<"r3", "b3">>, <<NULL, NULL>>},
                d \in ViolationDates(v)} :
           v \in {"v1", "v2", ""}}

\* reg_ids / building_ids: the set of truthy values of a field in data.
KeySet(data, field) ==
    {data[i][field] : i \in {j \in DOMAIN data : Truthy(data[j][field])}}

\* The sequences that enumerate a set once each (list(a_set), in any order).
Enumerations(S) ==
    {q \in [1..Cardinality(S) -> S] : \A i, j \in 1..Cardinality(S) : i # j => q[i] # q[j]}

\* Mutant of KeyLists: one entry per record instead of per distinct key.
KeyLists_PerRecord(data, field) ==
    {[k \in 1..Len(SelectSeq(data, LAMBDA r : Truthy(r[field]))) |->
        SelectSeq(data, LAMBDA r : Truthy(r[field]))[k][field]]}

\* list(reg_ids) / list(building_ids): the distinct keys, in the arbitrary
\* order the set iterates in.
KeyLists(data, field) ==
    Enumerations(KeySet(data, field))

\* Mutant of Capped: no cap.
Capped_All(q) ==
    q

\* q[:200]
Capped(q) ==
    SubSeq(q, 1, IF Len(q) < LookupCap THEN Len(q) ELSE LookupCap)

RespFailed == [ok |-> FALSE, data |-> <<>>]

\* The states of the contacts dataset in this specification: unreachable, or
\* holding a corporate owner for r1, an individual owner followed by an
\* element that is not an object for r2, and failing on r3.
ContactsDatasets ==
    {[k \in {"r1", "r2", "r3"} |-> RespFailed],
     [k \in {"r1", "r2", "r3"} |->
        CASE k = "r1" -> [ok |-> TRUE, data |-> << [type |-> "CorporateOwner", firstname |-> "",
                                                   lastname |-> "", corporationname |-> "ACME",
                                                   junk |-> FALSE] >>]
          [] k = "r2" -> [ok |-> TRUE, data |-> << [type |-> "IndividualOwner", firstname |-> "Ann",
                                                   lastname |-> "Lee", corporationname |-> NULL,
                                                   junk |-> FALSE], Junk >>]
          [] k = "r3" -> RespFailed]}

\* The states of the buildings dataset: unreachable, or failing on b1,
\* holding b2 (with a longitude that is not a number) and answering an empty
\* array for b3.
BuildingsDatasets ==
    {[k \in {"b1", "b2", "b3"} |-> RespFailed],
     [k \in {"b1", "b2", "b3"} |->
        CASE k = "b1" -> RespFailed
          [] k = "b2" -> [ok |-> TRUE, data |-> << [latitude |-> "40.70", longitude |-> "n/a"] >>]
          [] k = "b3" -> [ok |-> TRUE, data |-> <<>>]]}

NoCoords == [latitude |-> NULL, longitude |-> NULL]

\* _float(val): the number a string denotes, None when it denotes none.
float(val) ==
    CASE val = NULL -> NULL
      [] val = "40.70" -> "40.7"
      [] val = "-73.90" -> "-73.9"
      [] OTHER -> NULL

\* _fetch_building_coords(building_id) when the buildings dataset answers resp.
fetch_building_coords(building_id, resp) ==
    IF ~Truthy(building_id) THEN NoCoords
    ELSE IF ~resp.ok THEN NoCoords
    ELSE IF resp.data = <<>> THEN NoCoords
    ELSE [latitude |-> float(resp.data[1].latitude), longitude |-> float(resp.data[1].longitude)]

\* cache.get(key, default)
CacheGet(cache, key, default) ==
    IF key \in DOMAIN cache THEN cache[key] ELSE default

\* The row fetch_hpd_violations builds for raw record r.
ViolationRow(r, contact_cache, coord_cache) ==
    LET contacts == CacheGet(contact_cache, r.registrationid, NoContacts)
        coords == CacheGet(coord_cache, r.buildingid, NoCoords)
    IN  [violation_id |-> r.violationid,
         building_id |-> r.buildingid,
         registration_id |-> r.registrationid,
         class |-> "",
         inspection_date |-> r.inspectiondate,
         latitude |-> coords.latitude,
         longitude |-> coords.longitude,
         owner_name |-> contacts.owner_name,
         owner_type |-> contacts.owner_type,
         managing_agent |-> contacts.managing_agent]

\* Mutant of ViolationRows: records without violationid are kept.
ViolationRows_NoSkip(data, contact_cache, coord_cache) ==
    [k \in DOMAIN data |-> ViolationRow(data[k], contact_cache, coord_cache)]

\* rows: one per record with a violationid ("if not vid: continue").
ViolationRows(data, contact_cache, coord_cache) ==
    LET kept == SelectSeq(data, LAMBDA r : Truthy(r.violationid))
    IN  [k \in DOMAIN kept |-> ViolationRow(kept[k], contact_cache, coord_cache)]

QueryLimit == 200

\* The columns of hpd_violations the data table selects.
SelectedCols ==
    {"violation_id", "building_id", "class", "inspection_date", "owner_name", "latitude", "longitude"}

\* api_hpd_violations_all(limit, offset, from_date): the pages the query can
\* return; ORDER BY inspection_date DESC leaves the order of equal dates open.
api_hpd_violations_all(tbl, limit, offset, from_date) ==
    LET match == {i \in DOMAIN tbl :
                     /\ tbl[i].inspection_date # NULL
                     /\ DateRank(tbl[i].inspection_date) >= DateRank(from_date)}
        sorted == {q \in Enumerations(match) :
                     \A a, b \in DOMAIN q :
                        a < b => DateRank(tbl[q[a]].inspection_date) >= DateRank(tbl[q[b]].inspection_date)}
        last(q) == IF Len(q) < offset + limit THEN Len(q) ELSE offset + limit
    IN  {[k \in 1..(last(q) - offset) |-> [c \in SelectedCols |-> tbl[q[offset + k]][c]]] : q \in sorted}

\* Mutant of EnrichmentDone: the batch is written while lookups are pending.
EnrichmentDone_Early(r) ==
    TRUE

\* The row loop and the upsert come after both lookup loops have run out.
EnrichmentDone(r) ==
    r.reg_queue = <<>> /\ r.bld_queue = <<>>

\* A violation stored by an earlier run, inspected before the window.
OldViolation ==
    [violation_id |-> "v0", building_id |-> "b0", registration_id |-> "r0", class |-> "",
     inspection_date |-> "t0", latitude |-> NULL, longitude |-> NULL,
     owner_name |-> "OLD", owner_type |-> "CorporateOwner", managing_agent |-> NULL]

InitHpd ==
    /\ store = [hpd_violations |-> <<OldViolation>>]
    /\ \E d \in UNION {[1..n -> RawViolations] : n \in 0..MaxRaw} :
       \E cd \in ContactsDatasets : \E bd \in BuildingsDatasets :
          args = [via |-> "fetch_hpd_violations", input |-> d, contacts |-> cd, buildings |-> bd]
    /\ ncalls = 0
    /\ pre = store
    /\ orig = store
    /\ ret = NoRet
    /\ run = [pc |-> "start", reg_queue |-> <<>>, bld_queue |-> <<>>,
              contact_cache |-> <<>>, coord_cache |-> <<>>, calls |-> <<>>,
              limit |-> 0, page |-> <<>>]
    /\ SchedIdle

\* The violations request returns (or raises, which ends the run); the keys
\* to look up are collected and cut at the cap.
HpdFetch ==
    /\ run.pc = "start"
    /\ \/ /\ ret' = [status |-> "raised", count |-> 0]
          /\ run' = [run EXCEPT !.pc = "done"]
       \/ /\ \E rq \in KeyLists(args.input, "registrationid") :
             \E bq \in KeyLists(args.input, "buildingid") :
                run' = [run EXCEPT !.pc = "enrich",
                                   !.reg_queue = Capped(rq),
                                   !.bld_queue = Capped(bq)]
          /\ UNCHANGED ret
    /\ UNCHANGED <<store, args, ncalls, pre, orig>>
    /\ UNCHANGED schedVars

\* contact_cache[reg_id] = await _fetch_contacts_for_registration(reg_id)
HpdLookupContacts ==
    /\ run.pc = "enrich"
    /\ run.reg_queue # <<>>
    /\ LET reg_id == Head(run.reg_queue)
           resp == args.contacts[reg_id]
       IN  run' = [run EXCEPT
                        !.contact_cache = (reg_id :> fetch_contacts_for_registration(reg_id, resp)) @@ @,
                        !.reg_queue = Tail(@),
                        !.calls = Append(@, <<"contacts", reg_id,
                                             resp.ok /\ \A i \in DOMAIN resp.data : ~resp.data[i].junk>>)]
    /\ UNCHANGED <<store, args, ncalls, pre, ret, orig>>
    /\ UNCHANGED schedVars

\* coord_cache[bld_id] = await _fetch_building_coords(bld_id)
HpdLookupCoords ==
    /\ run.pc = "enrich"
    /\ run.reg_queue = <<>>
    /\ run.bld_queue # <<>>
    /\ LET bld_id == Head(run.bld_queue)
           resp == args.buildings[bld_id]
       IN  run' = [run EXCEPT
                        !.coord_cache = (bld_id :> fetch_building_coords(bld_id, resp)) @@ @,
                        !.bld_queue = Tail(@),
                        !.calls = Append(@, <<"coords", bld_id, resp.ok>>)]
    /\ UNCHANGED <<store, args, ncalls, pre, ret, orig>>
    /\ UNCHANGED schedVars

\* The rows are built and upsert_many("hpd_violations", rows, "violation_id")
\* is awaited; the run returns its count.
HpdUpsert ==
    /\ run.pc = "enrich"
    /\ EnrichmentDone(run)
    /\ LET rows == ViolationRows(args.input, run.contact_cache, run.coord_cache)
           r == upsert_many(store, "hpd_violations", rows, "violation_id")
       IN  /\ store' = r.store
           /\ ret' = r.ret
    /\ pre' = store
    /\ ncalls' = ncalls + 1
    /\ run' = [run EXCEPT !.pc = "done", !.calls = Append(@, <<"upsert", "-", TRUE>>)]
    /\ UNCHANGED <<args, orig>>
    /\ UNCHANGED schedVars

\* A reader asks for the violations of the fetch window, with the default
\* limit or a smaller one.
HpdQuery ==
    /\ run.pc = "done"
    /\ \E limit \in {QueryLimit, MaxPage} :
       \E page \in api_hpd_violations_all(store.hpd_violations, limit, 0, "t1") :
          run' = [run EXCEPT !.pc = "read", !.limit = limit, !.page = page]
    /\ UNCHANGED <<store, args, ncalls, pre, ret, orig>>
    /\ UNCHANGED schedVars

NextHpd ==
    \/ HpdFetch
    \/ HpdLookupContacts
    \/ HpdLookupCoords
    \/ HpdUpsert
    \/ HpdQuery

SpecHpd == InitHpd /\ [][NextHpd]_vars

(***************************************************************************)
(* Claims about the enrichment of a violations batch (checked under        *)
(* SpecHpd).                                                               *)
(***************************************************************************)
\* The lookup calls of one kind issued so far in the run.
CallsOf(kind) ==
    {i \in DOMAIN run.calls : run.calls[i][1] = kind}

\* The batch has been written.
Upserted ==
    run.pc \in {"done", "read"} /\ ret.status = "ok"

\* The rows of this run in the store (everything but the older violation).
NewRows ==
    {i \in DOMAIN store.hpd_violations : store.hpd_violations[i].violation_id # "v0"}

AtMost(n, cap) == IF n < cap THEN n ELSE cap

C15_LookupOncePerKey ==
    \A i, j \in DOMAIN run.calls :
        (i # j /\ run.calls[i][1] = run.calls[j][1]) => run.calls[i][2] # run.calls[j][2]

\* C15 witness: two records with violation ids reference registration r1,
\* the run has finished, and r1 was looked up once.
C15_Witness ==
    /\ Upserted
    /\ \E a, b \in DOMAIN args.input :
          /\ a # b
          /\ args.input[a].registrationid = "r1"
          /\ args.input[b].registrationid = "r1"
          /\ Truthy(args.input[a].violationid)
          /\ Truthy(args.input[b].violationid)
    /\ Cardinality({c \in CallsOf("contacts") : run.calls[c][2] = "r1"}) = 1

\* The lookups of a kind that the run logged as failed.
FailedCalls(kind) ==
    {i \in CallsOf(kind) : ~run.calls[i][3]}

\* C16: a lookup that fails is swallowed and leaves null attributes for its
\* key, the keys after it under the cap are still looked up, and the batch is
\* upserted.
C16_FailedLookupIsNull ==
    /\ \A i \in FailedCalls("contacts") : run.contact_cache[run.calls[i][2]] = NoContacts
    /\ \A i \in FailedCalls("coords") : run.coord_cache[run.calls[i][2]] = NoCoords
    /\ (run.pc \in {"done", "read"} /\ run.calls # <<>>) =>
          /\ ret.status = "ok"
          /\ Cardinality(CallsOf("contacts")) =
                AtMost(Cardinality(KeySet(args.input, "registrationid")), LookupCap)
          /\ Cardinality(CallsOf("coords")) =
                AtMost(Cardinality(KeySet(args.input, "buildingid")), LookupCap)

\* What does hold of failed lookups: one whose request fails leaves null
\* attributes, none stops the lookups after it or the upsert.
FailedLookupIsolated ==
    /\ \A i \in CallsOf("contacts") :
          ~args.contacts[run.calls[i][2]].ok => run.contact_cache[run.calls[i][2]] = NoContacts
    /\ \A i \in FailedCalls("coords") : run.coord_cache[run.calls[i][2]] = NoCoords
    /\ (run.pc \in {"done", "read"} /\ run.calls # <<>>) =>
          /\ ret.status = "ok"
          /\ Cardinality(CallsOf("contacts")) =
                AtMost(Cardinality(KeySet(args.input, "registrationid")), LookupCap)
          /\ Cardinality(CallsOf("coords")) =
                AtMost(Cardinality(KeySet(args.input, "buildingid")), LookupCap)

\* A failed lookup was followed by another lookup of the same kind and by the
\* upsert.
FailedThenContinued ==
    /\ Upserted
    /\ \E i \in FailedCalls("contacts") : \E j \in CallsOf("contacts") : i < j
    /\ \E i \in FailedCalls("coords") : \E j \in CallsOf("coords") : i < j

\* C18: the upsert of the batch is the last call of the run: when it is
\* issued no lookup is pending, every key under the cap has been looked up,
\* and until then the store is as the run found it.
C18_LookupsBeforeUpsert ==
    /\ run.pc = "enrich" => store = orig
    /\ \A i \in CallsOf("upsert") :
          /\ i = Len(run.calls)
          /\ run.reg_queue = <<>>
          /\ run.bld_queue = <<>>
          /\ Cardinality(CallsOf("contacts")) =
                AtMost(Cardinality(KeySet(args.input, "registrationid")), LookupCap)
          /\ Cardinality(CallsOf("coords")) =
                AtMost(Cardinality(KeySet(args.input, "buildingid")), LookupCap)

\* C18 witness: the upsert has been issued after a resolved lookup, a failed
\* lookup and with a key skipped by the cap.
C18_Witness ==
    /\ CallsOf("upsert") # {}
    /\ \E i \in CallsOf("contacts") : run.calls[i][3]
    /\ FailedCalls("coords") # {}
    /\ Cardinality(KeySet(args.input, "buildingid")) > LookupCap

\* The violation ids of the batch.
BatchIds ==
    {args.input[k].violationid : k \in {j \in DOMAIN args.input : Truthy(args.input[j].violationid)}}

\* C19: after the run the store holds, next to what it held before, one row
\* for each violation id of the batch and none for a record without id; the
\* run returns the number of records that carry an id; the query for the
\* fetch window returns those rows, as stored, newest first: all of them
\* when its limit admits them, else the newest up to the limit.
C19_EndToEnd ==
    /\ Upserted =>
          /\ {store.hpd_violations[i].violation_id : i \in NewRows} = BatchIds
          /\ Cardinality(NewRows) = Cardinality(BatchIds)
          /\ Len(store.hpd_violations) = Len(orig.hpd_violations) + Cardinality(BatchIds)
          /\ \A i \in DOMAIN orig.hpd_violations : store.hpd_violations[i] = orig.hpd_violations[i]
          /\ ret.count = Cardinality({k \in DOMAIN args.input : Truthy(args.input[k].violationid)})
    /\ (Upserted /\ run.pc = "read") =>
          /\ Len(run.page) = AtMost(Cardinality(BatchIds), run.limit)
          /\ \A k \in DOMAIN run.page : \E i \in NewRows :
                run.page[k] = [c \in SelectedCols |-> store.hpd_violations[i][c]]
          /\ \A i \in NewRows :
                \/ \E k \in DOMAIN run.page :
                      run.page[k] = [c \in SelectedCols |-> store.hpd_violations[i][c]]
                \/ /\ Cardinality(BatchIds) > run.limit
                   /\ \A k \in DOMAIN run.page :
                         DateRank(run.page[k].inspection_date) >=
                            DateRank(store.hpd_violations[i].inspection_date)
          /\ \A a, b \in DOMAIN run.page :
                a < b => DateRank(run.page[a].inspection_date) >= DateRank(run.page[b].inspection_date)

\* C19 witness: the batch had a record without violation id, a record whose
\* registration was not looked up and a resolved record; the query returned
\* the two rows, the newer one first.
C19_Witness ==
    /\ Upserted
    /\ run.pc = "read"
    /\ run.limit = QueryLimit
    /\ Len(args.input) = 3
    /\ \E k \in DOMAIN args.input : ~Truthy(args.input[k].violationid)
    /\ Len(run.page) = 2
    /\ run.page[1].inspection_date = "t2"
    /\ run.page[2].inspection_date = "t1"
    /\ \E a, b \in DOMAIN run.page :
          /\ run.page[a].owner_name = "ACME"
          /\ run.page[b].owner_name = NULL
          /\ \E i \in NewRows :
                /\ store.hpd_violations[i].violation_id = run.page[b].violation_id
                /\ Truthy(store.hpd_violations[i].registration_id)
                /\ store.hpd_violations[i].registration_id \notin DOMAIN run.contact_cache

(***************************************************************************)
(* Claim about repeated fetches of one record (checked under SpecSched).   *)
(***************************************************************************)
\* The rows of the store that carry the key of upsert statement w.
RowsOf(st, w) ==
    {k \in DOMAIN st[w.table] : st[w.table][k][w.key] = w.rows[1][w.key]}

\* The upsert statements of the adapters (each for the adapter's record).
Upserts ==
    UNION {{Writes(a, FALSE)[i] : i \in DOMAIN Writes(a, FALSE)} : a \in Adapters}

\* Task t commits a statement in this step.
Commits(t) ==
    /\ task[t].state = "running"
    /\ task[t].pc = "commit"
    /\ task'[t] # task[t]
    /\ task'[t].state # "cancelled"

\* C20: whatever runs of backfill and ticks have fetched a record, and in
\* whatever interleaving, the store never holds two rows with the record's
\* key; a run that commits the record leaves exactly one row for it, which
\* later runs keep; the FDNY record 1 is stored under "fdny_1" and the Notify
\* NYC record 1 under "alert_api_1" by every run.
C20_NoDuplication ==
    [][/\ \A w \in Upserts : Cardinality(RowsOf(store', w)) <= 1
       /\ \A w \in Upserts : Cardinality(RowsOf(store, w)) = 1 => Cardinality(RowsOf(store', w)) = 1
       /\ \A t \in TaskIds :
             (Commits(t) /\ Cur(t) \in Adapters) =>
                LET w == Writes(Cur(t), task[t].bad)[task[t].w]
                IN  /\ Cardinality(RowsOf(store', w)) = 1
                    /\ Cur(t) = "fetch_fdny_incidents" => w.rows[1].id = "fdny_1"
                    /\ Cur(t) = "fetch_notify_nyc_api" => w.rows[1].id = "alert_api_1"
      ]_vars

\* C20 witness: the backfill pass and a tick of the fdny job have both
\* fetched and written the FDNY record, and the store holds one row for it.
C20_Witness ==
    /\ needs_backfill
    /\ "fetch_fdny_incidents" \in task["backfill"].got
    /\ task["backfill"].step > 1
    /\ task["backfill"].log[1] = "completed"
    /\ "fetch_fdny_incidents" \in task["fdny"].got
    /\ task["fdny"].log = <<"completed">>
    /\ Cardinality({k \in DOMAIN store.events : store.events[k].id = "fdny_1"}) = 1

(***************************************************************************)
(* Claims about what the jobs do to stored rows (checked under SpecSched). *)
(***************************************************************************)
\* C21: no step of the pipeline (backfill pass, job tick, session cleanup,
\* shutdown) removes an event: every event row stays where it is with its
\* id, so the set of stored event ids only grows.
C21_EventsNeverDeleted ==
    [][\A k \in DOMAIN store.events :
          /\ k \in DOMAIN store'.events
          /\ store'.events[k].id = store.events[k].id]_vars

\* C21 witness: the store started with an older event; the fdny job ticked
\* twice and wrote the FDNY record both times without a failure; the older
\* event and the record's row are both there.
C21_Witness ==
    /\ orig = UsedStore
    /\ ticks = 2
    /\ faults = 0
    /\ \A j \in JobIds \ {"fdny"} : task[j].invoked = <<>>
    /\ task["fdny"].state = "idle"
    /\ task["fdny"].log = <<"completed">>
    /\ store.events[1].id = "fdny_0"
    /\ store.events[2].id = "fdny_1"

(***************************************************************************)
(* services/news: fetch_news_feeds and fetch_hyperlocal_feeds (SpecNews).  *)
(* Each run parses the feeds it is configured with and upserts the rows of *)
(* all of them in one batch.                                               *)
(***************************************************************************)
MaxFeed == 1      \* entries of one feed in one run
MaxHits == 2      \* feeds that deliver entries in one run

\* config.NEWS_FEEDS and config.HYPERLOCAL_FEEDS, in dict order.
NEWS_FEEDS ==
    <<"district2_news", "epstein_news", "epstein_news_alt", "neighborhood_news">>

HYPERLOCAL_FEEDS ==
    <<"ev_grieve", "the_lodown", "the_city", "gothamist", "amny_manhattan">>

\* "word" in feed_name, for the words fetch_news_feeds looks for.
NameHas(feed_name, word) ==
    CASE word = "epstein" -> feed_name \in {"epstein_news", "epstein_news_alt"}
      [] word = "district" -> feed_name = "district2_news"
      [] word = "neighborhood" -> feed_name = "neighborhood_news"

\* bool(feed_info.get("neighborhoods"))
is_neighborhood_specific(feed_key) ==
    feed_key \in {"ev_grieve", "the_lodown"}

\* The entries a feed can carry: link, title, whether title and summary match
\* EXCLUDE_PATTERNS, whether they name a neighbourhood of the district.
Entries ==
    {[link |-> "u1", title |-> "n1", excluded |-> FALSE, relevant |-> TRUE],
     [link |-> "u2", title |-> "n2", excluded |-> TRUE, relevant |-> FALSE],
     [link |-> "u1", title |-> "n2", excluded |-> FALSE, relevant |-> FALSE]}

\* What the feeds of one run deliver: per feed a list of entries, empty for
\* a feed that fails or has nothing.
FeedAnswers(feeds) ==
    {f \in [DOMAIN feeds -> UNION {[1..n -> Entries] : n \in 0..MaxFeed}] :
        Cardinality({i \in DOMAIN feeds : f[i] # <<>>}) <= MaxHits}

\* _is_valid_epstein_article(title, summary)
is_valid_epstein_article(e) ==
    ~e.excluded

\* _article_id(url, title)
article_id(url, title) ==
    md5(url \o ":" \o title)

Flag(b) == IF b THEN "1" ELSE "0"

\* Mutant of NewsRow: the id also depends on the feed.
NewsRow_PerFeed(feed_name, e) ==
    [id |-> article_id(e.link, feed_name \o e.title),
     title |-> e.title,
     url |-> e.link,
     feed_name |-> feed_name,
     is_epstein_related |-> Flag(NameHas(feed_name, "epstein")),
     is_district_news |-> Flag(NameHas(feed_name, "district") \/ NameHas(feed_name, "neighborhood"))]

\* The row fetch_news_feeds appends for entry e of feed feed_name.
NewsRow(feed_name, e) ==
    [id |-> article_id(e.link, e.title),
     title |-> e.title,
     url |-> e.link,
     feed_name |-> feed_name,
     is_epstein_related |-> Flag(NameHas(feed_name, "epstein")),
     is_district_news |-> Flag(NameHas(feed_name, "district") \/ NameHas(feed_name, "neighborhood"))]

\* The row fetch_hyperlocal_feeds appends for entry e of feed feed_key.
HyperlocalRow(feed_key, e) ==
    [id |-> article_id(e.link, e.title),
     title |-> e.title,
     url |-> e.link,
     feed_name |-> feed_key,
     is_epstein_related |-> "0",
     is_district_news |-> "1",
     is_hyperlocal |-> "1"]

\* all_rows of fetch_news_feeds from feed i on.
RECURSIVE NewsRows(_, _)
NewsRows(answers, i) ==
    IF i > Len(NEWS_FEEDS) THEN <<>>
    ELSE LET feed_name == NEWS_FEEDS[i]
             kept == SelectSeq(answers[i],
                               LAMBDA e : ~(NameHas(feed_name, "epstein") /\ ~is_valid_epstein_article(e)))
         IN  [k \in DOMAIN kept |-> NewsRow(feed_name, kept[k])] \o NewsRows(answers, i + 1)

\* all_rows of fetch_hyperlocal_feeds from feed i on.
RECURSIVE HyperlocalRows(_, _)
HyperlocalRows(answers, i) ==
    IF i > Len(HYPERLOCAL_FEEDS) THEN <<>>
    ELSE LET feed_key == HYPERLOCAL_FEEDS[i]
             kept == SelectSeq(answers[i],
                               LAMBDA e : is_neighborhood_specific(feed_key) \/ e.relevant)
         IN  [k \in DOMAIN kept |-> HyperlocalRow(feed_key, kept[k])] \o HyperlocalRows(answers, i + 1)

InitNews ==
    /\ store = [news_articles |-> <<>>]
    /\ args = [via |-> "-", input |-> <<>>]
    /\ ncalls = 0
    /\ pre = store
    /\ orig = store
    /\ ret = NoRet
    /\ run = NoRun
    /\ SchedIdle

\* One run of fetch_news_feeds.
FetchNewsFeeds ==
    /\ ncalls < MaxCalls
    /\ \E answers \in FeedAnswers(NEWS_FEEDS) :
          LET all_rows == NewsRows(answers, 1)
              r == upsert_many(store, "news_articles", all_rows, "id")
          IN  /\ store' = r.store
              /\ ret' = r.ret
              /\ args' = [via |-> "fetch_news_feeds", input |-> all_rows]
    /\ pre' = store
    /\ ncalls' = ncalls + 1
    /\ UNCHANGED <<orig, run>>
    /\ UNCHANGED schedVars

\* One run of fetch_hyperlocal_feeds.
FetchHyperlocalFeeds ==
    /\ ncalls < MaxCalls
    /\ \E answers \in FeedAnswers(HYPERLOCAL_FEEDS) :
          LET all_rows == HyperlocalRows(answers, 1)
              r == upsert_many(store, "news_articles", all_rows, "id")
          IN  /\ store' = r.store
              /\ ret' = r.ret
              /\ args' = [via |-> "fetch_hyperlocal_feeds", input |-> all_rows]
    /\ pre' = store
    /\ ncalls' = ncalls + 1
    /\ UNCHANGED <<orig, run>>
    /\ UNCHANGED schedVars

NextNews ==
    \/ FetchNewsFeeds
    \/ FetchHyperlocalFeeds

SpecNews == InitNews /\ [][NextNews]_vars

(***************************************************************************)
(* Claims about news articles (checked under SpecNews).                    *)
(***************************************************************************)
\* The stored rows of the article with this link and title.
ArticleRows(st, url, title) ==
    {k \in DOMAIN st.news_articles : st.news_articles[k].id = article_id(url, title)}

\* The feeds the last run took the article from.
FeedsOf(url, title) ==
    {args.input[k].feed_name :
        k \in {j \in DOMAIN args.input : args.input[j].url = url /\ args.input[j].title = title}}

\* C22: however many feeds and runs delivered an article, it has one row:
\* no two rows share an id, every article of the last batch has exactly one
\* row, stored under the hash of its link and title, and rows of articles the
\* batch does not hold stay one each.
C22_NewsDeduplicated ==
    /\ \A i, j \in DOMAIN store.news_articles :
          i # j => store.news_articles[i].id # store.news_articles[j].id
    /\ ret.status = "ok" =>
          \A k \in DOMAIN args.input :
              /\ Cardinality(ArticleRows(store, args.input[k].url, args.input[k].title)) = 1
              /\ args.input[k].id = article_id(args.input[k].url, args.input[k].title)
    /\ \A e \in Entries :
          Cardinality(ArticleRows(pre, e.link, e.title)) = 1 =>
              Cardinality(ArticleRows(store, e.link, e.title)) = 1

\* C22 witness: the last run found one article in two of its feeds, an
\* earlier run of the other adapter had stored it already, and it has one row.
C22_Witness ==
    /\ ncalls = 2
    /\ ret.status = "ok"
    /\ \E e \in Entries :
          /\ Cardinality(FeedsOf(e.link, e.title)) = 2
          /\ \E k \in ArticleRows(pre, e.link, e.title) :
                (pre.news_articles[k].is_hyperlocal = "1") # (args.via = "fetch_hyperlocal_feeds")
          /\ Cardinality(ArticleRows(store, e.link, e.title)) = 1

\* C23 (as stated): no fetch changes a classification flag of a row that is
\* already stored.
C23_FlagsFixedAtIngestion ==
    [][\A i \in DOMAIN store.news_articles : \A j \in DOMAIN store'.news_articles :
          store'.news_articles[j].id = store.news_articles[i].id =>
              /\ store'.news_articles[j].is_epstein_related = store.news_articles[i].is_epstein_related
              /\ store'.news_articles[j].is_district_news = store.news_articles[i].is_district_news
              /\ store'.news_articles[j].is_hyperlocal = store.news_articles[i].is_hyperlocal]_vars

\* The adapter that wrote a stored article row last (it names its feed).
WriterOf(row) ==
    IF row.feed_name \in Range(NEWS_FEEDS) THEN "fetch_news_feeds" ELSE "fetch_hyperlocal_feeds"

\* C24 (as stated): no run of an adapter writes a key under which the store
\* holds a row written by the other adapter.
C24_DisjointKeySpaces ==
    [][\A i \in DOMAIN store.news_articles :
          WriterOf(store.news_articles[i]) # args'.via =>
              \A k \in DOMAIN args'.input : args'.input[k].id # store.news_articles[i].id]_vars

(***************************************************************************)
(* One run of fetch_fdny_incidents against an upstream that holds more or  *)
(* fewer matching records than a page (SpecPage).                          *)
(***************************************************************************)
MaxUpstream == 3  \* matching records the upstream holds
PageSize == 2     \* stands for SOCRATA_PAGE_SIZE (5000), the "$limit" sent

IncidentIds == {"i1", "i2", "i3"}

\* The matching incidents of the dataset, in "$order" (newest first), with
\* distinct ids; a classification may be missing.
UpstreamIncidents ==
    {q \in UNION {[1..n -> [STARFIRE_INCIDENT_ID : IncidentIds,
                            INCIDENT_CLASSIFICATION : {"Alarm", NULL}]] : n \in 0..MaxUpstream} :
        \A i, j \in DOMAIN q : i # j => q[i].STARFIRE_INCIDENT_ID # q[j].STARFIRE_INCIDENT_ID}

\* What the dataset answers to "$limit": the first limit matching records.
SocrataPage(matching, limit) ==
    SubSeq(matching, 1, IF Len(matching) < limit THEN Len(matching) ELSE limit)

\* x or default
Or2(x, default) ==
    IF Truthy(x) THEN x ELSE default

\* rows of fetch_fdny_incidents for the records of data.
FdnyRows(data) ==
    LET kept == SelectSeq(data, LAMBDA r : Truthy(r.STARFIRE_INCIDENT_ID))
    IN  [k \in DOMAIN kept |->
            [id |-> event_id("fdny", kept[k].STARFIRE_INCIDENT_ID),
             title |-> Or2(kept[k].INCIDENT_CLASSIFICATION, "Fire Incident")]]

InitPage ==
    /\ store = [events |-> <<>>]
    /\ \E m \in UpstreamIncidents : args = [via |-> "fetch_fdny_incidents", input |-> m]
    /\ ncalls = 0
    /\ pre = store
    /\ orig = store
    /\ ret = NoRet
    /\ run = [pc |-> "start", requests |-> 0, data |-> <<>>]
    /\ SchedIdle

\* resp = await client.get(url, params); resp.raise_for_status(); resp.json()
PageRequest ==
    /\ run.pc = "start"
    /\ \/ /\ run' = [run EXCEPT !.pc = "fetched", !.requests = @ + 1,
                                !.data = SocrataPage(args.input, PageSize)]
          /\ UNCHANGED ret
       \/ /\ run' = [run EXCEPT !.pc = "done", !.requests = @ + 1]
          /\ ret' = [status |-> "raised", count |-> 0]
    /\ UNCHANGED <<store, args, ncalls, pre, orig>>
    /\ UNCHANGED schedVars

\* The rows of the answer are built and upserted; the run returns.
PageUpsert ==
    /\ run.pc = "fetched"
    /\ LET r == upsert_many(store, "events", FdnyRows(run.data), "id")
       IN  /\ store' = r.store
           /\ ret' = r.ret
    /\ pre' = store
    /\ ncalls' = ncalls + 1
    /\ run' = [run EXCEPT !.pc = "done"]
    /\ UNCHANGED <<args, orig>>
    /\ UNCHANGED schedVars

NextPage ==
    \/ PageRequest
    \/ PageUpsert

SpecPage == InitPage /\ [][NextPage]_vars

\* C25 (as stated): a run that returns has ended on a page shorter than the
\* page size (no hard cap exists in the adapter), and every matching record
\* of the upstream, those beyond the first page included, has been stored.
C25_Pagination ==
    (run.pc = "done" /\ ret.status = "ok") =>
        /\ Len(run.data) < PageSize
        /\ \A k \in DOMAIN args.input :
              \E i \in DOMAIN store.events :
                  store.events[i].id = event_id("fdny", args.input[k].STARFIRE_INCIDENT_ID)

\* What the run does: one request, and the first page stored.
OneRequestPerRun ==
    /\ run.requests <= 1
    /\ (run.pc = "done" /\ ret.status = "ok") =>
          /\ Len(store.events) = Len(SocrataPage(args.input, PageSize))
          /\ \A k \in DOMAIN store.events :
                store.events[k].id = event_id("fdny", args.input[k].STARFIRE_INCIDENT_ID)

(***************************************************************************)
(* Claim about retries (checked under SpecSched).                          *)
(***************************************************************************)
\* C26: an adapter's upstream request is answered once per adapter run: the
\* step that ends the wait, with a failure or not, leaves that run's request
\* behind (no second attempt); and a job whose run has failed is still
\* registered: while the scheduler runs, its next tick can fire and starts
\* the adapter again.
C26_NoRetryInRun ==
    [][/\ \A t \in TaskIds :
             (task[t].state = "running" /\ task[t].pc = "fetch" /\ task'[t] # task[t]) =>
                 \/ task'[t].state # "running"
                 \/ task'[t].pc # "fetch"
                 \/ Len(task'[t].invoked) = Len(task[t].invoked) + 1
       /\ \A j \in JobIds :
             (/\ task[j].state = "idle"
              /\ \E i \in DOMAIN task[j].log : task[j].log[i] = "failed"
              /\ running
              /\ ticks < (IF needs_backfill THEN MaxBackfillTicks ELSE MaxTicks))
             => ENABLED Tick(j)
      ]_vars

\* C26 witness: the first run of the fdny job failed (the one fault); its
\* second tick has run the adapter again, which completed.
C26_Witness ==
    /\ ~needs_backfill
    /\ ticks = 2
    /\ faults = 1
    /\ \A t \in TaskIds \ {"fdny"} : task[t].invoked = <<>>
    /\ task["fdny"].state = "idle"
    /\ task["fdny"].invoked = <<"fetch_fdny_incidents">>
    /\ task["fdny"].log = <<"completed">>
    /\ orig = UsedStore
    /\ Len(store.events) = 2

(***************************************************************************)
(* The percentage change of the summaries (SpecPct).  Percentages are      *)
(* kept in tenths: 50.0 is 500.                                            *)
(***************************************************************************)
MaxCount == 150   \* largest count a window holds

\* Mutant of round1: the quotient is cut off.
round1_Floor(n, d) ==
    {n \div d}

\* round(n / d, 1) in tenths, for n the value times ten and d > 0: the
\* nearest tenth; where the exact value lies halfway the float quotient falls
\* on either side, so both neighbours are possible.
round1(n, d) ==
    LET q == n \div d
        rem == n % d
    IN  IF 2 * rem < d THEN {q}
        ELSE IF 2 * rem > d THEN {q + 1}
        ELSE {q, q + 1}

\* round((current_count - prev_count) / prev_count * 100, 1)
\*     if prev_count > 0 else 0
pct_change(current_count, prev_count) ==
    IF prev_count > 0
    THEN round1((current_count - prev_count) * 1000, prev_count)
    ELSE {0}

InitPct ==
    /\ store = [complaints_311 |-> <<>>]
    /\ \E c, p \in 0..MaxCount : args = [via |-> "pct_change", input |-> <<c, p>>]
    /\ ncalls = 0
    /\ pre = store
    /\ orig = store
    /\ ret = NoRet
    /\ run = NoRun
    /\ SchedIdle

\* The summary computes pct_change from its two counts.
ComputePctChange ==
    /\ ncalls = 0
    /\ \E v \in pct_change(args.input[1], args.input[2]) :
          ret' = [status |-> "ok", count |-> v]
    /\ ncalls' = 1
    /\ UNCHANGED <<store, args, pre, orig, run>>
    /\ UNCHANGED schedVars

NextPct ==
    ComputePctChange

SpecPct == InitPct /\ [][NextPct]_vars

Abs(x) == IF x < 0 THEN -x ELSE x

\* C27: with a previous count above zero pct_change is the tenth nearest to
\* (current - previous) / previous * 100; with a previous count of zero it
\* is 0; 150 against 100 gives 50.0 and 50 against 0 gives 0.
C27_PctChange ==
    ret.status = "ok" =>
        LET current == args.input[1]
            previous == args.input[2]
        IN  /\ previous > 0 =>
                  2 * Abs(ret.count * previous - (current - previous) * 1000) <= previous
            /\ previous = 0 => ret.count = 0
            /\ (current = 150 /\ previous = 100) => ret.count = 500
            /\ (current = 50 /\ previous = 0) => ret.count = 0

\* C27 witness: 150 against 100 has been computed as 50.0.
C27_Witness ==
    /\ args.via = "pct_change"
    /\ args.input = <<150, 100>>
    /\ ret = [status |-> "ok", count |-> 500]

(***************************************************************************)
(* services/complaints: the live queries over complaints_311 (SpecStats).  *)
(* Time is counted in clock ticks; datetime.utcnow() is read anew by each  *)
(* call of it, and the clock may have advanced between two reads.          *)
(***************************************************************************)
Day == 2          \* clock ticks in a day
MaxDrift == 1     \* ticks the clock can advance between two reads
MaxStored == 2    \* complaints in the store
Now == 130        \* the clock when a query starts

\* timedelta(days=1), timedelta(weeks=1), timedelta(days=30)
PeriodLength(period) ==
    CASE period = "daily" -> 1 * Day
      [] period = "weekly" -> 7 * Day
      [] OTHER -> 30 * Day

\* Creation times of the stored complaints: around the window edges of the
\* periods, and one ahead of the clock.
CreatedDates ==
    {Now + 1, Now, Now - Day, Now - Day - 1, Now - 2 * Day, Now - 2 * Day + 1,
     Now - 30 * Day, Now - 30 * Day + 1, Now - 60 * Day, Now - 60 * Day + 1,
     Now - 60 * Day - 1}

StoredComplaints ==
    {q \in UNION {[1..n -> [unique_key : UniqueKeys311, created_date : CreatedDates,
                            complaint_type : {"Heat"}]] : n \in 0..MaxStored} :
        \A i, j \in DOMAIN q : i # j => q[i].unique_key # q[j].unique_key}

\* SELECT COUNT(*) FROM complaints_311 WHERE created_date > lo [AND created_date <= hi]
CountAfter(tbl, lo) ==
    Cardinality({i \in DOMAIN tbl : tbl[i].created_date > lo})

CountBetween(tbl, lo, hi) ==
    Cardinality({i \in DOMAIN tbl : tbl[i].created_date > lo /\ tbl[i].created_date <= hi})

\* date(created_date)
date(ts) ==
    ts \div Day

\* SELECT date(created_date) as date, COUNT(*) as count FROM complaints_311
\* WHERE created_date > since GROUP BY date(created_date) ORDER BY date
TrendRows(tbl, since) ==
    LET match == {i \in DOMAIN tbl : tbl[i].created_date > since}
        days == {date(tbl[i].created_date) : i \in match}
        order == CHOOSE q \in Enumerations(days) : \A a, b \in DOMAIN q : a < b => q[a] < q[b]
    IN  [k \in DOMAIN order |->
            [date |-> order[k],
             count |-> Cardinality({i \in match : date(tbl[i].created_date) = order[k]})]]

InitStats ==
    /\ \E c \in StoredComplaints : store = [complaints_311 |-> c]
    /\ args = [via |-> "-", input |-> <<>>]
    /\ ncalls = 0
    /\ pre = store
    /\ orig = store
    /\ ret = NoRet
    /\ run = [pc |-> "idle", period |-> "-", since |-> 0, prev_since |-> 0,
              total_311 |-> 0, prev_311 |-> 0, pct_change_311 |-> 0, trend |-> <<>>]
    /\ SchedIdle

\* get_complaint_summary(period): since and prev_since come from two reads
\* of the clock.
GetComplaintSummary ==
    /\ run.pc = "idle"
    /\ \E period \in {"daily", "weekly", "monthly"} : \E drift \in 0..MaxDrift :
          LET since == Now - PeriodLength(period)
              prev_since == (Now + drift) - 2 * PeriodLength(period)
              current_count == CountAfter(store.complaints_311, since)
              prev_count == CountBetween(store.complaints_311, prev_since, since)
          IN  \E pct \in pct_change(current_count, prev_count) :
                 run' = [run EXCEPT !.pc = "summary", !.period = period,
                                    !.since = since, !.prev_since = prev_since,
                                    !.total_311 = current_count, !.prev_311 = prev_count,
                                    !.pct_change_311 = pct]
    /\ args' = [via |-> "get_complaint_summary", input |-> <<>>]
    /\ ncalls' = ncalls + 1
    /\ UNCHANGED <<store, pre, ret, orig>>
    /\ UNCHANGED schedVars

\* get_311_trend(None, months) for months = 1.
Get311Trend ==
    /\ run.pc = "idle"
    /\ LET since == Now - 1 * 30 * Day
       IN  run' = [run EXCEPT !.pc = "trend", !.since = since,
                              !.trend = TrendRows(store.complaints_311, since)]
    /\ args' = [via |-> "get_311_trend", input |-> <<>>]
    /\ ncalls' = ncalls + 1
    /\ UNCHANGED <<store, pre, ret, orig>>
    /\ UNCHANGED schedVars

NextStats ==
    \/ GetComplaintSummary
    \/ Get311Trend

SpecStats == InitStats /\ [][NextStats]_vars

(***************************************************************************)
(* Claims about the live queries (checked under SpecStats).                *)
(***************************************************************************)
\* The latest creation time in the table.
LatestCreated(tbl) ==
    CHOOSE d \in {tbl[i].created_date : i \in DOMAIN tbl} :
        \A i \in DOMAIN tbl : tbl[i].created_date <= d

\* C28 (as stated): a trend query whose window holds no complaint while the
\* table holds some returns the trend of the window of the same length that
\* ends at the latest complaint.
C28_EmptyWindowFallback ==
    (/\ run.pc = "trend"
     /\ store.complaints_311 # <<>>
     /\ CountAfter(store.complaints_311, run.since) = 0)
    => /\ run.trend # <<>>
       /\ run.trend = TrendRows(store.complaints_311,
                                LatestCreated(store.complaints_311) - 1 * 30 * Day)

\* What the trend query returns: the rows of its own window, whatever the
\* table holds outside it.
TrendIsOfRequestedWindow ==
    run.pc = "trend" =>
        /\ run.trend = TrendRows(store.complaints_311, Now - 1 * 30 * Day)
        /\ CountAfter(store.complaints_311, run.since) = 0 => run.trend = <<>>

\* C30 (as stated): the previous window (prev_since, since] is as long as the
\* current one (since, now], and every complaint created within the last two
\* period lengths is counted once, in total_311 or in prev_311.
C30_WindowsPartition ==
    run.pc = "summary" =>
        LET L == PeriodLength(run.period)
            recent == {i \in DOMAIN store.complaints_311 :
                          /\ store.complaints_311[i].created_date > Now - 2 * L
                          /\ store.complaints_311[i].created_date <= Now}
            ahead == {i \in DOMAIN store.complaints_311 :
                          store.complaints_311[i].created_date > Now}
        IN  /\ Now - run.since = L
            /\ run.since - run.prev_since = L
            /\ run.total_311 + run.prev_311 = Cardinality(recent) + Cardinality(ahead)

\* What holds of the two windows: they are adjacent and disjoint, so every
\* complaint created after prev_since is counted exactly once; the previous
\* window is shorter than the period by the time between the clock reads.
WindowsAdjacent ==
    run.pc = "summary" =>
        LET L == PeriodLength(run.period)
        IN  /\ run.total_311 + run.prev_311 = CountAfter(store.complaints_311, run.prev_since)
            /\ run.since - run.prev_since <= L
            /\ run.since - run.prev_since >= L - MaxDrift

(***************************************************************************)
(* Claim about rollups after corrections (checked under SpecAgg).          *)
(***************************************************************************)
\* compute_aggregations has run and complaints_311 is as that run read it.
AggregationsCurrent ==
    /\ ncalls >= 1
    /\ pre.complaints_311 = store.complaints_311

\* C29 (as stated): when compute_aggregations has finished, every daily
\* bucket of a named category holds the number of complaints now stored for
\* its day and category: a bucket exists where there are complaints, and no
\* bucket holds another count, those of categories without complaints left
\* included.
C29_RollupsReflectRecords ==
    AggregationsCurrent =>
        \A d \in DOMAIN AggDays : \A ty \in ComplaintTypes \ {NULL} :
            LET n == GroupCount(store.complaints_311, AggDays[d], ty)
                bucket == {i \in DOMAIN store.aggregations :
                              /\ store.aggregations[i].period_start = AggDays[d]
                              /\ store.aggregations[i].category = ty}
            IN  /\ n > 0 => bucket # {}
                /\ \A i \in bucket : store.aggregations[i].count = n

\* What holds: the buckets of the categories that have complaints are
\* current.
PresentBucketsCurrent ==
    AggregationsCurrent =>
        \A d \in DOMAIN AggDays : \A ty \in ComplaintTypes \ {NULL} :
            LET n == GroupCount(store.complaints_311, AggDays[d], ty)
            IN  n > 0 =>
                  /\ \E i \in DOMAIN store.aggregations :
                        /\ store.aggregations[i].period_start = AggDays[d]
                        /\ store.aggregations[i].category = ty
                  /\ \A i \in DOMAIN store.aggregations :
                        (/\ store.aggregations[i].period_start = AggDays[d]
                         /\ store.aggregations[i].category = ty)
                        => store.aggregations[i].count = n

(***************************************************************************)
(* Two jobs write news_articles at the same time (SpecConc).               *)
(*                                                                         *)
(* The news job and the hyperlocal job each call upsert_many on            *)
(* news_articles while requests call db.query.  Every call opens its own   *)
(* connection (get_db); executemany runs its statements one after the      *)
(* other in the connection's implicit transaction, which holds SQLite's    *)
(* write lock from its first statement to commit / close; a second writer  *)
(* waits for the lock.  The database is in WAL mode: a query reads the     *)
(* committed state.                                                        *)
(*   run.pc[w]: "connect", "exec" (statement run.i[w] is next), "commit",  *)
(*   "close" (a statement was rejected), "done"; run.seen: the latest      *)
(*   query's result, with the lock holder and the open transaction's view  *)
(*   at that moment.                                                       *)
(***************************************************************************)
Writers == {"news", "hyperlocal"}

\* The row dicts each job builds: fetch_news_feeds does not name
\* is_hyperlocal, fetch_hyperlocal_feeds sets it; a title may be None.
WriterDicts(w) ==
    IF w = "news"
    THEN {[id |-> i, title |-> t] : i \in ArticleIds, t \in {"t1", NULL}}
    ELSE {[id |-> i, title |-> t, is_hyperlocal |-> "1"] :
             i \in ArticleIds, t \in {"t2", NULL}}

WriterBatches(w) ==
    UNION {[1..n -> WriterDicts(w)] : n \in 1..MaxBatch}

\* The batch a writer passes to upsert_many.
BatchOf(w) ==
    IF w = "news" THEN args.input[1] ELSE args.input[2]

NoSeen == [rows |-> <<>>, lock |-> "-", open |-> <<>>]

InitConc ==
    /\ \E s \in {s \in StoredNews : Len(s) <= 1 /\ \A i \in 1..Len(s) : s[i].id = "a1" /\ s[i].title = "t1" /\ s[i].is_hyperlocal = "0"} :
          store = [news_articles |-> s, calls_911 |-> <<>>]
    /\ \E a \in WriterBatches("news"), b \in WriterBatches("hyperlocal") :
          args = [via |-> "concurrent", input |-> <<a, b>>]
    /\ ncalls = 0
    /\ pre = store
    /\ orig = store
    /\ ret = NoRet
    /\ run = [pc |-> [w \in Writers |-> "connect"],
              i |-> [w \in Writers |-> 1],
              status |-> [w \in Writers |-> "none"],
              seen |-> NoSeen]
    /\ SchedIdle

\* Mutant of WalSnapshot: the query reads the writer's uncommitted pages.
WalSnapshot_Dirty(table) ==
    IF dbLock # "free" THEN txn.tbl ELSE store[table]

\* PRAGMA journal_mode=WAL: a statement of a connection without an open
\* write transaction reads the last committed state of the table.
WalSnapshot(table) ==
    store[table]

\* db = await get_db(): a connection of its own for this call.
ConcGetDb(w) ==
    /\ run.pc[w] = "connect"
    /\ run' = [run EXCEPT !.pc[w] = "exec"]
    /\ UNCHANGED <<store, args, ncalls, pre, ret, orig>>
    /\ UNCHANGED schedVars

\* One statement of db.executemany(sql, ...): the first one opens the
\* transaction and takes the write lock (it waits while another connection
\* holds it); a rejected statement ends executemany with an exception.
ConcExecuteStatement(w) ==
    /\ run.pc[w] = "exec"
    /\ dbLock \in {"free", w}
    /\ LET rows == BatchOf(w)
           view == IF dbLock = w THEN txn.tbl ELSE WalSnapshot("news_articles")
           one == ExecuteOne("news_articles", view, DOMAIN rows[1], "id", rows[run.i[w]])
       IN  /\ txn' = [table |-> "news_articles", tbl |-> one.tbl]
           /\ run' = IF ~one.ok THEN [run EXCEPT !.pc[w] = "close"]
                     ELSE IF run.i[w] = Len(rows) THEN [run EXCEPT !.pc[w] = "commit"]
                     ELSE [run EXCEPT !.i[w] = @ + 1]
    /\ dbLock' = w
    /\ UNCHANGED <<store, args, ncalls, pre, ret, orig>>
    /\ UNCHANGED <<lifespan, needs_backfill, running, task, ticks, faults, bystanders>>

\* await db.commit(); return len(rows); finally: await db.close().
ConcCommit(w) ==
    /\ run.pc[w] = "commit"
    /\ dbLock = w
    /\ store' = [store EXCEPT !["news_articles"] = txn.tbl]
    /\ dbLock' = Released(w)
    /\ txn' = NoTx
    /\ run' = [run EXCEPT !.pc[w] = "done", !.status[w] = "ok"]
    /\ ncalls' = ncalls + 1
    /\ UNCHANGED <<args, pre, ret, orig>>
    /\ UNCHANGED <<lifespan, needs_backfill, running, task, ticks, faults, bystanders>>

\* finally: await db.close() after executemany raised: nothing is committed.
ConcClose(w) ==
    /\ run.pc[w] = "close"
    /\ dbLock = w
    /\ store' = CloseWithoutCommit(store, "news_articles", txn.tbl)
    /\ dbLock' = Released(w)
    /\ txn' = NoTx
    /\ run' = [run EXCEPT !.pc[w] = "done", !.status[w] = "IntegrityError"]
    /\ ncalls' = ncalls + 1
    /\ UNCHANGED <<args, pre, ret, orig>>
    /\ UNCHANGED <<lifespan, needs_backfill, running, task, ticks, faults, bystanders>>

\* db.query("SELECT ... FROM news_articles ..."): execute and fetchall on a
\* connection of its own.
ConcQuery ==
    /\ run' = [run EXCEPT !.seen = [rows |-> WalSnapshot("news_articles"),
                                    lock |-> dbLock,
                                    open |-> txn.tbl]]
    /\ UNCHANGED <<store, args, ncalls, pre, ret, orig>>
    /\ UNCHANGED schedVars

NextConc ==
    \/ \E w \in Writers : ConcGetDb(w)
    \/ \E w \in Writers : ConcExecuteStatement(w)
    \/ \E w \in Writers : ConcCommit(w)
    \/ \E w \in Writers : ConcClose(w)
    \/ ConcQuery

SpecConc == InitConc /\ [][NextConc]_vars

\* The table after the calls of the writers in order run one after another.
RECURSIVE SerialState(_, _)
SerialState(st, order) ==
    IF order = <<>> THEN st
    ELSE SerialState(upsert_many(st, "news_articles", BatchOf(Head(order)), "id").store,
                     Tail(order))

\* The tables some sequence of whole calls produces from the initial one.
WholeBatchStates ==
    {SerialState(orig, o).news_articles :
        o \in {<<>>, <<"news">>, <<"hyperlocal">>,
               <<"news", "hyperlocal">>, <<"hyperlocal", "news">>}}

KeysOf(rows) ==
    {rows[i].id : i \in DOMAIN rows}

OverlappingKeys ==
    KeysOf(BatchOf("news")) \cap KeysOf(BatchOf("hyperlocal")) # {}

\* C31: two upsert_many calls of different jobs on news_articles with
\* overlapping keys leave the table as one of the two serial orders of the
\* calls leaves it, and every concurrent query returns a table that whole
\* calls produce: never part of a batch, never a partly written row.
C31_ConcurrentBatchesSerialize ==
    OverlappingKeys =>
        /\ (\A w \in Writers : run.pc[w] = "done") =>
              store.news_articles \in
                  {SerialState(orig, <<"news", "hyperlocal">>).news_articles,
                   SerialState(orig, <<"hyperlocal", "news">>).news_articles}
        /\ run.seen # NoSeen => run.seen.rows \in WholeBatchStates

\* Both calls committed two rows each on the same keys, the two serial
\* orders differ, and a query ran while the second statement of a batch was
\* about to run: the open transaction held a table no whole call produces.
C31_Witness ==
    /\ OverlappingKeys
    /\ \A w \in Writers : run.pc[w] = "done" /\ run.status[w] = "ok"
                          /\ Len(BatchOf(w)) = 2
    /\ SerialState(orig, <<"news", "hyperlocal">>).news_articles
         # SerialState(orig, <<"hyperlocal", "news">>).news_articles
    /\ run.seen.lock # "free"
    /\ run.seen.open \notin WholeBatchStates
    /\ run.seen.rows # store.news_articles

(***************************************************************************)
(* services/news: the name disambiguation of fetch_news_feeds (SpecFilter).*)
(* A text is the sequence of its words; the two regular expressions are    *)
(* followed on the words the model has.                                    *)
(***************************************************************************)
MaxWords == 2     \* words of a title

Words == {"jeffrey", "epstein", "tenant"}

\* The (title, summary) pairs a feed entry can carry.
FeedEntries ==
    [title : UNION {[1..n -> Words] : n \in 1..MaxWords},
     summary : UNION {[1..n -> Words] : n \in 0..1}]

\* EXCLUDE_PATTERNS.search(text): of its alternatives, jeffrey\s+epstein.
EXCLUDE_PATTERNS(text) ==
    \E i \in DOMAIN text :
        /\ i + 1 \in DOMAIN text
        /\ text[i] = "jeffrey"
        /\ text[i + 1] = "epstein"

\* CONFIRM_PATTERNS.search(text): of its alternatives, tenant.
CONFIRM_PATTERNS(text) ==
    \E i \in DOMAIN text : text[i] = "tenant"

\* Mutant of IsValidEpsteinArticle: a confirming word outweighs an excluding
\* one.
IsValidEpsteinArticle_ConfirmFirst(title, summary) ==
    LET text == title \o summary
    IN  IF CONFIRM_PATTERNS(text) THEN TRUE
        ELSE IF EXCLUDE_PATTERNS(text) THEN FALSE
        ELSE TRUE

\* _is_valid_epstein_article(title, summary); text = f"{title} {summary}".
IsValidEpsteinArticle(title, summary) ==
    LET text == title \o summary
    IN  IF EXCLUDE_PATTERNS(text) THEN FALSE
        ELSE IF CONFIRM_PATTERNS(text) THEN TRUE
        ELSE TRUE

\* The entries of feed feed_name that reach all_rows.
KeptEntries(feed_name, entries) ==
    LET is_epstein_feed == NameHas(feed_name, "epstein")
    IN  SelectSeq(entries,
                  LAMBDA e : ~(is_epstein_feed /\ ~IsValidEpsteinArticle(e.title, e.summary)))

InitFilter ==
    /\ store = [news_articles |-> <<>>]
    /\ \E i \in DOMAIN NEWS_FEEDS :
       \E entries \in UNION {[1..n -> FeedEntries] : n \in 0..MaxFeed} :
          args = [via |-> NEWS_FEEDS[i], input |-> entries]
    /\ ncalls = 0
    /\ pre = store
    /\ orig = store
    /\ ret = NoRet
    /\ run = NoRun
    /\ SchedIdle

\* fetch_news_feeds goes through the entries of one feed.
FilterFeed ==
    /\ ncalls = 0
    /\ LET kept == KeptEntries(args.via, args.input)
       IN  ret' = [status |-> "ok", count |-> Len(kept), rows |-> kept]
    /\ ncalls' = 1
    /\ UNCHANGED <<store, args, pre, orig, run>>
    /\ UNCHANGED schedVars

NextFilter ==
    FilterFeed

SpecFilter == InitFilter /\ [][NextFilter]_vars

\* C32: of a feed with "epstein" in its name an entry is dropped when an
\* exclude pattern matches its title and summary, a confirm pattern matching
\* too or not, and kept otherwise, a confirm pattern matching or not; no
\* entry of another feed is dropped.
C32_NameDisambiguation ==
    ncalls = 1 =>
        \A k \in DOMAIN args.input :
            LET e == args.input[k]
                text == e.title \o e.summary
                adjacent == \E i \in 1..(Len(text) - 1) :
                               text[i] = "jeffrey" /\ text[i + 1] = "epstein"
                dropped == /\ args.via \in {"epstein_news", "epstein_news_alt"}
                           /\ adjacent
            IN  Count(ret.rows, e) = IF dropped THEN 0 ELSE Count(args.input, e)

\* A feed of the council member's name delivered an entry that both kinds
\* of pattern match, and the entry was dropped.
C32_Witness ==
    /\ ncalls = 1
    /\ args.via = "epstein_news"
    /\ args.input = << [title |-> <<"tenant", "jeffrey">>, summary |-> <<"epstein">>] >>
    /\ ret.count = 0

(***************************************************************************)
(* Claim about the start of the backfill pass (checked under SpecSched).   *)
(***************************************************************************)
\* The step is check_needs_backfill / the rest of lifespan up to the yield.
IsCheckStep == lifespan = "start" /\ lifespan' = "checked"
IsStartupStep == lifespan = "checked" /\ lifespan' = "serving"

\* The backfill pass is launched exactly when the check found events empty
\* or its query failed, and a pass that was launched is not launched again.
BackfillIffEmptyOrFailed ==
    [][/\ IsCheckStep =>
            (needs_backfill' <=> (Len(store.events) = 0 \/ faults' # faults))
       /\ IsStartupStep =>
            ((task'["backfill"].state = "running") <=> needs_backfill)
       /\ ~IsStartupStep =>
            (task["backfill"].state = "idle" => task'["backfill"].state = "idle")
       /\ task["backfill"].state \in {"done", "cancelled"} =>
            task'["backfill"].state = task["backfill"].state]_vars

\* C33 (as stated): at process start the backfill pass is launched exactly
\* when events is empty at the check or the count query fails, at most once
\* per start, and never while events holds a row.
C33_BackfillTrigger ==
    [][/\ IsCheckStep =>
            (needs_backfill' <=> (Len(store.events) = 0 \/ faults' # faults))
       /\ IsStartupStep =>
            /\ (task'["backfill"].state = "running") <=> needs_backfill
            /\ task'["backfill"].state = "running" => Len(store.events) = 0
       /\ ~IsStartupStep =>
            (task["backfill"].state = "idle" => task'["backfill"].state = "idle")
       /\ task["backfill"].state \in {"done", "cancelled"} =>
            task'["backfill"].state = task["backfill"].state]_vars

(***************************************************************************)
(* services/news: feeds that fail inside a run (SpecFeeds).                *)
(* The try/except of both adapters sits inside the loop over the feeds: a  *)
(* feed whose request or parse raises ends there, with the rows it had     *)
(* appended so far, and the loop goes on with the next feed.  A behaviour   *)
(* is one run of either adapter on an empty table.                         *)
(***************************************************************************)
\* What one feed does in a run: the entries gone through, and whether an
\* exception ended the feed after them (none gone through: the request
\* failed).
FeedOutcomes(feeds) ==
    {f \in [DOMAIN feeds -> [entries : UNION {[1..n -> Entries] : n \in 0..MaxFeed},
                             raised : BOOLEAN]] :
        Cardinality({i \in DOMAIN feeds : f[i].entries # <<>>}) <= MaxHits}

\* Mutant of Collected: one try/except around the whole loop, so the feeds
\* after a failing one are not read.
Collected_AbortAtFailure(outcomes) ==
    [i \in DOMAIN outcomes |->
        IF \E j \in 1..(i - 1) : outcomes[j].raised THEN <<>> ELSE outcomes[i].entries]

\* The entries each feed of the run has gone through when the loop ends.
Collected(outcomes) ==
    [i \in DOMAIN outcomes |-> outcomes[i].entries]

\* One run of fetch_news_feeds with feeds that may fail.
RunNewsFeeds ==
    /\ ncalls = 0
    /\ \E outcomes \in FeedOutcomes(NEWS_FEEDS) :
          LET all_rows == NewsRows(Collected(outcomes), 1)
              r == upsert_many(store, "news_articles", all_rows, "id")
          IN  /\ store' = r.store
              /\ ret' = r.ret
              /\ args' = [via |-> "fetch_news_feeds", input |-> all_rows]
              /\ run' = [pc |-> "-", outcomes |-> outcomes]
    /\ pre' = store
    /\ ncalls' = ncalls + 1
    /\ UNCHANGED orig
    /\ UNCHANGED schedVars

\* One run of fetch_hyperlocal_feeds with feeds that may fail.
RunHyperlocalFeeds ==
    /\ ncalls = 0
    /\ \E outcomes \in FeedOutcomes(HYPERLOCAL_FEEDS) :
          LET all_rows == HyperlocalRows(Collected(outcomes), 1)
              r == upsert_many(store, "news_articles", all_rows, "id")
          IN  /\ store' = r.store
              /\ ret' = r.ret
              /\ args' = [via |-> "fetch_hyperlocal_feeds", input |-> all_rows]
              /\ run' = [pc |-> "-", outcomes |-> outcomes]
    /\ pre' = store
    /\ ncalls' = ncalls + 1
    /\ UNCHANGED orig
    /\ UNCHANGED schedVars

NextFeeds ==
    \/ RunNewsFeeds
    \/ RunHyperlocalFeeds

SpecFeeds == InitNews /\ [][NextFeeds]_vars

\* Entry e of the i-th feed of the latest run passes the run's own filter.
PassesFilter(i, e) ==
    IF args.via = "fetch_news_feeds"
    THEN ~(NEWS_FEEDS[i] \in {"epstein_news", "epstein_news_alt"} /\ e.excluded)
    ELSE HYPERLOCAL_FEEDS[i] \in {"ev_grieve", "the_lodown"} \/ e.relevant

\* The entries of the latest run that pass the filter, as (feed, position).
Passing ==
    {p \in {<<i, k>> : i \in DOMAIN run.outcomes, k \in 1..MaxFeed} :
        /\ p[2] \in DOMAIN run.outcomes[p[1]].entries
        /\ PassesFilter(p[1], run.outcomes[p[1]].entries[p[2]])}

\* C34: whatever feeds of a run fail, every article the run collected from
\* the other feeds is in the batch and stored in news_articles when the run
\* returns, and the run returns the number of rows it upserted.
C34_PerFeedIsolation ==
    ncalls >= 1 =>
        /\ \A p \in Passing :
              LET e == run.outcomes[p[1]].entries[p[2]]
                  id == "md5(" \o e.link \o ":" \o e.title \o ")"
              IN  /\ \E k \in DOMAIN args.input : args.input[k].id = id
                  /\ \E k \in DOMAIN store.news_articles :
                        /\ store.news_articles[k].id = id
                        /\ store.news_articles[k].title = e.title
        /\ ret.status = "ok"
        /\ ret.count = Cardinality(Passing)
        /\ ret.count = Len(args.input)

\* A run of fetch_news_feeds in which the first feed failed at once, a later
\* feed failed after one entry and another feed delivered an article: both
\* articles were upserted.
C34_Witness ==
    /\ ncalls = 1
    /\ args.via = "fetch_news_feeds"
    /\ run.outcomes[1] = [entries |-> <<>>, raised |-> TRUE]
    /\ run.outcomes[2].raised /\ Len(run.outcomes[2].entries) = 1
    /\ ~run.outcomes[4].raised /\ Len(run.outcomes[4].entries) = 1
    /\ ret.count = 2
    /\ Len(store.news_articles) = 2

(***************************************************************************)
(* Claim about the jobs that run two adapters (checked under SpecSched).   *)
(***************************************************************************)
\* job_fetch_notify_nyc and job_fetch_hpd.
CompositeJobs ==
    {j \in JobIds : Len(JobProgram(j)) = 2}

\* C35: in a job that awaits two adapters one after the other, each inside
\* its own _safe_run, the step in which the first adapter ends, returning or
\* raising, is the step in which the second one is invoked, and the second
\* one is never invoked before that.
C35_SecondAdapterAlwaysInvoked ==
    [][\A j \in CompositeJobs :
          LET first == JobProgram(j)[1][1]
              second == JobProgram(j)[2][1]
          IN  /\ (/\ task[j].state = "running"
                  /\ task[j].step = 1
                  /\ task'[j].log # task[j].log)
                 => /\ task'[j].state = "running"
                    /\ task'[j].step = 2
                    /\ task'[j].invoked = <<first, second>>
                    /\ task'[j].log \in {<<"completed">>, <<"failed">>}
              /\ (\E i \in DOMAIN task'[j].invoked : task'[j].invoked[i] = second)
                 => Len(task'[j].log) >= 1]_vars

\* The first adapter of job_fetch_hpd raised and the second one has been
\* invoked and has completed.
C35_Witness ==
    /\ task["hpd"].state = "idle"
    /\ task["hpd"].log = <<"failed", "completed">>
    /\ task["hpd"].invoked = <<"fetch_hpd_violations", "fetch_hpd_complaints">>
    /\ Len(store.hpd_complaints) = 1
    /\ Len(store.hpd_violations) = 0

(***************************************************************************)
(* Claim about the two tables fetch_311_events writes (under SpecSched).   *)
(***************************************************************************)
\* The unique_key values the 311 upstream holds in this model.
Keys311 == {"1"}

\* No run of fetch_311_events is in progress.
No311RunInProgress ==
    \A t \in TaskIds :
        task[t].state = "running" => Cur(t) # "fetch_311_events"

\* Every events row 311_<k> has its complaints_311 row <k>.
Events311HaveComplaints ==
    \A i \in DOMAIN store.events : \A k \in Keys311 :
        store.events[i].id = "311_" \o k
        => \E c \in DOMAIN store.complaints_311 :
              store.complaints_311[c].unique_key = k

\* C36 (as stated): whenever no run of fetch_311_events is in progress,
\* however the runs before ended, every events row 311_<k> they wrote has a
\* complaints_311 row with unique_key <k>.
C36_CrossTableConsistency ==
    No311RunInProgress => Events311HaveComplaints

\* What holds: the same, as long as no run was cancelled.
ConsistentUnlessCancelled ==
    (No311RunInProgress /\ \A t \in TaskIds : task[t].state # "cancelled")
    => Events311HaveComplaints

(***************************************************************************)
(* auth.delete_user under concurrent requests (SpecUsers).                 *)
(* Each DELETE /admin/api/users/{user_id} request runs delete_user as its  *)
(* own coroutine: two db.query calls and one db.execute call, each on a    *)
(* connection of its own, with awaits in between.                          *)
(*   run.pc[r]: "count" -> "role" -> "delete" -> "done";                   *)
(*   run.admins[r], run.user[r]: the locals admins[0]["cnt"] and user;     *)
(*   run.result[r]: what delete_user returned;                             *)
(*   run.overlapped: some request started while another was in progress.   *)
(***************************************************************************)
MaxUsers == 3        \* rows of users at the start
MaxRequests == 2     \* delete requests in one behaviour

Requests == 1..MaxRequests

\* users at the start: ids 1..n, at least one admin (init_db seeds one).
StoredUsers ==
    {u \in UNION {[1..n -> {"admin", "user"}] : n \in 1..MaxUsers} :
        \E i \in DOMAIN u : u[i] = "admin"}

UserRows(u) ==
    [i \in DOMAIN u |-> [id |-> i, role |-> u[i]]]

\* SELECT COUNT(*) as cnt FROM users WHERE role = 'admin'
CountAdmins(tbl) ==
    Cardinality({i \in DOMAIN tbl : tbl[i].role = "admin"})

\* SELECT role FROM users WHERE id = ?
RoleOf(tbl, user_id) ==
    LET hit == SelectSeq(tbl, LAMBDA x : x.id = user_id)
    IN  [i \in DOMAIN hit |-> hit[i].role]

InitUsers ==
    /\ \E u \in StoredUsers : store = [users |-> UserRows(u)]
    /\ \E targets \in [Requests -> 1..MaxUsers] :
          args = [via |-> "delete_user", input |-> targets]
    /\ ncalls = 0
    /\ pre = store
    /\ orig = store
    /\ ret = NoRet
    /\ run = [pc |-> [r \in Requests |-> "count"],
              admins |-> [r \in Requests |-> 0],
              user |-> [r \in Requests |-> <<>>],
              result |-> [r \in Requests |-> "none"],
              overlapped |-> FALSE]
    /\ SchedIdle

\* The admin count the request decides on: the one its first query returned.
AdminsSeen(r) ==
    run.admins[r]

\* admins = await query("SELECT COUNT(*) ...")
QueryAdmins(r) ==
    /\ run.pc[r] = "count"
    /\ run' = [run EXCEPT !.pc[r] = "role",
                          !.admins[r] = CountAdmins(store.users),
                          !.overlapped = @ \/ \E q \in Requests \ {r} :
                                                 run.pc[q] \in {"role", "delete"}]
    /\ UNCHANGED <<store, args, ncalls, pre, ret, orig>>
    /\ UNCHANGED schedVars

\* user = await query("SELECT role ..."), then the test: return False for
\* the last admin, else go on to the DELETE.
QueryUser(r) ==
    /\ run.pc[r] = "role"
    /\ LET user == RoleOf(store.users, args.input[r])
       IN  run' = [run EXCEPT !.user[r] = user,
                              !.pc[r] = "delete"]
    /\ UNCHANGED <<store, args, ncalls, pre, ret, orig>>
    /\ UNCHANGED schedVars

\* if user and user[0]["role"] == "admin" and admins[0]["cnt"] <= 1:
\*     return False
\* await execute("DELETE FROM users WHERE id = ?"); return True
DeleteOrRefuse(r) ==
    /\ run.pc[r] = "delete"
    /\ IF /\ run.user[r] # <<>>
          /\ run.user[r][1] = "admin"
          /\ AdminsSeen(r) <= 1
       THEN /\ run' = [run EXCEPT !.pc[r] = "done", !.result[r] = "false"]
            /\ store' = store
       ELSE /\ run' = [run EXCEPT !.pc[r] = "done", !.result[r] = "true"]
            /\ store' = [store EXCEPT !.users =
                            SelectSeq(@, LAMBDA x : x.id # args.input[r])]
    /\ pre' = store
    /\ ncalls' = ncalls + 1
    /\ UNCHANGED <<args, ret, orig>>
    /\ UNCHANGED schedVars

NextUsers ==
    \/ \E r \in Requests : QueryAdmins(r)
    \/ \E r \in Requests : QueryUser(r)
    \/ \E r \in Requests : DeleteOrRefuse(r)

SpecUsers == InitUsers /\ [][NextUsers]_vars

\* C37 (as stated): however delete_user calls interleave, users keeps at
\* least one admin when it had one before the calls, and a call that returns
\* false leaves users as it was.
C37_LastAdminProtected ==
    [][/\ CountAdmins(orig.users) >= 1 => CountAdmins(store'.users) >= 1
       /\ \A r \in Requests :
             (run.result[r] = "none" /\ run'.result[r] = "false")
             => store' = store]_vars

\* What holds: calls that run one after the other keep an admin.
SerialCallsKeepAdmin ==
    ~run.overlapped => CountAdmins(store.users) >= 1

(***************************************************************************)
(* worker/suggestions_worker.py and the suggestion endpoints of app.py     *)
(* (SpecWorker).                                                           *)
(*                                                                         *)
(* One worker instance (main holds an exclusive flock) polls               *)
(* GET /api/internal/suggestions/pending and runs process_suggestion on    *)
(* what it gets, while users create suggestions.  The table's definition   *)
(* is not among the sources; create_suggestion names user_id and           *)
(* suggestion_text only, so a new row is taken to get status 'pending' and *)
(* a created_at later than the rows before it.                             *)
(*   run.pc: "poll", "mark", "status", "claude", "diff", "build",          *)
(*   "restart", "send", "pop"; run.sid: the suggestion in process;         *)
(*   run.stashed: the local stashed; run.status: the status the next       *)
(*   api_put carries; run.where: "try" or "except" (inside a handler);     *)
(*   run.sent: the statuses sent in this call; run.handled: ids of the     *)
(*   suggestions process_suggestion has returned from; run.faults: failed  *)
(*   PUT requests and raised exceptions so far; run.deployed: this call    *)
(*   has restarted the site.                                               *)
(***************************************************************************)
MaxSuggestions == 2     \* suggestions created in one behaviour
MaxWorkerFaults == 2    \* failed PUT requests and raised commands in one behaviour
MaxPolls == 3           \* suggestions the worker picks up in one behaviour

NoSuggestion == 0

WorkerIdle ==
    [pc |-> "poll", sid |-> NoSuggestion, stashed |-> FALSE, status |-> "-",
     where |-> "-", sent |-> <<>>, handled |-> {}, faults |-> 0,
     deployed |-> FALSE]

InitWorker ==
    /\ store = [suggestions |-> <<>>]
    /\ args = [via |-> "suggestions_worker", input |-> <<>>]
    /\ ncalls = 0
    /\ pre = store
    /\ orig = store
    /\ ret = NoRet
    /\ run = WorkerIdle
    /\ SchedIdle

\* POST /api/suggestions: INSERT INTO suggestions (user_id, suggestion_text).
CreateSuggestion ==
    /\ Len(store.suggestions) < MaxSuggestions
    /\ LET n == Len(store.suggestions) + 1
       IN  store' = [store EXCEPT !.suggestions =
                        Append(@, [id |-> n, status |-> "pending", created_at |-> n])]
    /\ UNCHANGED <<args, ncalls, pre, ret, orig, run>>
    /\ UNCHANGED schedVars

\* SELECT * FROM suggestions WHERE status = 'pending'
\* ORDER BY created_at ASC LIMIT 1: the ids of the rows returned.
get_pending_suggestion(tbl) ==
    {tbl[i].id : i \in {i \in DOMAIN tbl :
        /\ tbl[i].status = "pending"
        /\ \A j \in DOMAIN tbl :
              tbl[j].status = "pending" => tbl[i].created_at <= tbl[j].created_at}}

\* UPDATE suggestions SET status = ? ... WHERE id = ?
update_suggestion(tbl, suggestion_id, status) ==
    [i \in DOMAIN tbl |->
        IF tbl[i].id = suggestion_id THEN [tbl[i] EXCEPT !.status = status]
        ELSE tbl[i]]

\* except subprocess.TimeoutExpired / except Exception of process_suggestion:
\* the next thing is the api_put of status failed.
Handler(r) ==
    [r EXCEPT !.pc = "send", !.status = "failed", !.where = "except",
              !.faults = @ + 1]

\* process_suggestion returns (or its exception reaches main's loop).
Returned(r) ==
    [r EXCEPT !.pc = "poll", !.handled = @ \cup {r.sid}, !.status = "-",
              !.where = "-", !.stashed = FALSE]

\* main: suggestion = api_get(".../pending"); process_suggestion(suggestion).
Poll ==
    /\ run.pc = "poll"
    /\ ncalls < MaxPolls
    /\ \E sid \in get_pending_suggestion(store.suggestions) :
          run' = [run EXCEPT !.pc = "mark", !.sid = sid, !.sent = <<>>,
                             !.stashed = FALSE, !.where = "try",
                             !.deployed = FALSE]
    /\ ncalls' = ncalls + 1
    /\ UNCHANGED <<store, args, pre, ret, orig>>
    /\ UNCHANGED schedVars

\* api_put(path, data): the request reaches update_suggestion, or every
\* attempt fails and api_put returns None.
ApiPut(status, next) ==
    \/ /\ store' = [store EXCEPT !.suggestions = update_suggestion(@, run.sid, status)]
       /\ run' = [next EXCEPT !.sent = Append(run.sent, status)]
    \/ /\ run.faults < MaxWorkerFaults
       /\ store' = store
       /\ run' = [next EXCEPT !.sent = Append(run.sent, status), !.faults = @ + 1]

\* api_put(..., {"status": "processing"})
MarkProcessing ==
    /\ run.pc = "mark"
    /\ ApiPut("processing", [run EXCEPT !.pc = "status"])
    /\ UNCHANGED <<args, ncalls, pre, ret, orig>>
    /\ UNCHANGED schedVars

\* git status --porcelain, and git stash push on a dirty tree.
GitStatus ==
    /\ run.pc = "status"
    /\ \/ run' = [run EXCEPT !.pc = "claude"]
       \/ run' = [run EXCEPT !.pc = "claude", !.stashed = TRUE]
       \/ run.faults < MaxWorkerFaults /\ run' = Handler(run)
    /\ UNCHANGED <<store, args, ncalls, pre, ret, orig>>
    /\ UNCHANGED schedVars

\* run([CLAUDE_PATH, ...]): exit code 0, another exit code, or an exception
\* (TimeoutExpired after 300 s, OSError).
RunClaude ==
    /\ run.pc = "claude"
    /\ \/ run' = [run EXCEPT !.pc = "diff"]
       \/ run' = [run EXCEPT !.pc = "send", !.status = "failed"]
       \/ run.faults < MaxWorkerFaults /\ run' = Handler(run)
    /\ UNCHANGED <<store, args, ncalls, pre, ret, orig>>
    /\ UNCHANGED schedVars

\* git diff --name-only / --cached: no changed files, or some.
GitDiff ==
    /\ run.pc = "diff"
    /\ \/ run' = [run EXCEPT !.pc = "send", !.status = "completed"]
       \/ run' = [run EXCEPT !.pc = "build"]
       \/ run.faults < MaxWorkerFaults /\ run' = Handler(run)
    /\ UNCHANGED <<store, args, ncalls, pre, ret, orig>>
    /\ UNCHANGED schedVars

\* git add, git commit, docker compose build district2.
CommitAndBuild ==
    /\ run.pc = "build"
    /\ \/ run' = [run EXCEPT !.pc = "restart"]
       \/ run' = [run EXCEPT !.pc = "send", !.status = "failed"]
       \/ run.faults < MaxWorkerFaults /\ run' = Handler(run)
    /\ UNCHANGED <<store, args, ncalls, pre, ret, orig>>
    /\ UNCHANGED schedVars

\* docker compose up -d, wait_for_healthy, git stash pop when stashed; the
\* api_put of status completed comes next and nothing follows it.
Restart ==
    /\ run.pc = "restart"
    /\ \/ run' = [run EXCEPT !.pc = "send", !.status = "completed", !.stashed = FALSE,
                            !.deployed = TRUE]
       \/ run.faults < MaxWorkerFaults /\ run' = Handler(run)
    /\ UNCHANGED <<store, args, ncalls, pre, ret, orig>>
    /\ UNCHANGED schedVars

\* api_put(..., {"status": "failed" | "completed", ...}); then
\* "if stashed: run(git stash pop)" where the code has it, and return.
SendStatus ==
    /\ run.pc = "send"
    /\ ApiPut(run.status, IF run.stashed THEN [run EXCEPT !.pc = "pop"]
                          ELSE Returned(run))
    /\ UNCHANGED <<args, ncalls, pre, ret, orig>>
    /\ UNCHANGED schedVars

\* run(["git", "stash", "pop"]) after a status was sent: it returns, or it
\* raises: inside the try block the handlers run, inside a handler the
\* exception leaves process_suggestion.
StashPop ==
    /\ run.pc = "pop"
    /\ \/ run' = Returned(run)
       \/ /\ run.faults < MaxWorkerFaults
          /\ run' = IF run.where = "try" THEN Handler(run)
                    ELSE [Returned(run) EXCEPT !.faults = @ + 1]
    /\ UNCHANGED <<store, args, ncalls, pre, ret, orig>>
    /\ UNCHANGED schedVars

NextWorker ==
    \/ CreateSuggestion
    \/ Poll
    \/ MarkProcessing
    \/ GitStatus
    \/ RunClaude
    \/ GitDiff
    \/ CommitAndBuild
    \/ Restart
    \/ SendStatus
    \/ StashPop

SpecWorker == InitWorker /\ [][NextWorker]_vars

(***************************************************************************)
(* Claims about the suggestion worker (checked under SpecWorker).          *)
(***************************************************************************)
\* The status changes the lifecycle allows.
LifecycleSteps ==
    {<<"pending", "processing">>, <<"processing", "completed">>,
     <<"processing", "failed">>}

\* process_suggestion returns in this step.
IsReturn == run.pc # "poll" /\ run'.pc = "poll"

FinalSent(sent) ==
    \E i \in DOMAIN sent : sent[i] \in {"completed", "failed"}

\* C38 (as stated): the status of a suggestion the worker has picked up only
\* moves pending -> processing -> completed or failed, so that completed and
\* failed are never changed again, and process_suggestion does not return on
\* any path without having sent a status of completed or failed.
C38_SuggestionLifecycle ==
    [][/\ \A i \in DOMAIN store.suggestions :
             store'.suggestions[i].status # store.suggestions[i].status
             => <<store.suggestions[i].status, store'.suggestions[i].status>>
                   \in LifecycleSteps
       /\ IsReturn => FinalSent(run'.sent)]_vars

\* What holds: every return of process_suggestion follows a final status
\* update it sent, and while no request fails and no command raises the
\* status moves as the lifecycle says.
FinalStatusAlwaysSent ==
    [][/\ IsReturn => FinalSent(run'.sent)
       /\ run'.faults = 0 =>
             \A i \in DOMAIN store.suggestions :
                store'.suggestions[i].status # store.suggestions[i].status
                => <<store.suggestions[i].status, store'.suggestions[i].status>>
                      \in LifecycleSteps]_vars

\* C39 (as stated): the worker takes the oldest pending suggestion, and a
\* suggestion process_suggestion has returned from is never taken again,
\* status updates that fail included.
C39_ProcessedAtMostOnce ==
    [][(run.pc = "poll" /\ run'.pc = "mark") =>
          /\ \A i \in DOMAIN store.suggestions :
                store.suggestions[i].status = "pending"
                => store.suggestions[i].id >= run'.sid
          /\ run'.sid \notin run.handled]_vars

\* What holds: the suggestion taken is the oldest pending one, and one whose
\* final status update arrived is not taken again.
OldestPendingTaken ==
    [][(run.pc = "poll" /\ run'.pc = "mark") =>
          /\ \A i \in DOMAIN store.suggestions :
                store.suggestions[i].status = "pending"
                => store.suggestions[i].id >= run'.sid
          /\ store.suggestions[run'.sid].status = "pending"]_vars

====
